---------------------------- MODULE Spec2Model ----------------------------
(***************************************************************************)
(* A model of the streaming response normalisation of the English-learning *)
(* backend: QwenLlm's two stream processors, its non-streaming parser, its *)
(* text sanitizer and its vendor session (qianwen.py), the finish reason   *)
(* mappers and the message adapters of both clients, the streaming         *)
(* generation of OpenAILlm (openai_client.py), and the SSE framer of       *)
(* main.py.                                                                *)
(*                                                                         *)
(* Text is modelled as a sequence of symbols (TLA+ strings).  A symbol is  *)
(* one character, except for a few multi-character symbols that the code   *)
(* never looks inside: a JSON key with its quotes and colon ("output"      *)
(* stands for the bytes "output": ), the literal null, a number, the SSE   *)
(* prefix "data: ", the sentinel [DONE], a markdown fence of three         *)
(* backticks and its tag json, the escape \n inside a JSON string, and the *)
(* two bytes of one two-byte UTF-8 character.  Reads of the transport cut  *)
(* the byte stream between any two symbols.                                *)
(***************************************************************************)
EXTENDS Integers, Sequences, FiniteSets, TLC

VARIABLES
    path,              \* "sse" | "json": the processor chosen from the Content-Type; "openai": OpenAILlm
    wire,              \* bytes the vendor has still to deliver
    buffer,            \* the processor's local buffer (decoded text)
    accumulated_text,  \* the processor's local accumulated_text
    emitted,           \* the LlmResponse events yielded so far, in order
    status,            \* "reading" | "ended" | "raised"
    loaded,            \* history: the values json.loads has returned so far
    lastLoad,          \* history: what json.loads did in the last read
    doneSeen,          \* history: a data: [DONE] line has been read
    sent,              \* history: the bytes delivered so far
    nreads,            \* history: "none", "one" or "several" reads so far
    mapLog,            \* the calls of _map_finish_reason, or of the message adapters, made: adapter, argument, result
    event_id,          \* main.py: sse_generator.event_id
    conns,             \* main.py: the client connections, each with its generator's state
    session,           \* QwenLlm._session: 0 for None, else the number of the ClientSession
    sessions,          \* the ClientSessions created so far: closed, and how often closed
    gens,              \* the generate_content_async calls on the one QwenLlm instance
    clean_in,          \* the text handed to _clean_markdown_json
    clean_out          \* the results of _clean_markdown_json applied again and again

qwenVars == <<path, wire, buffer, accumulated_text, emitted, status, loaded, lastLoad, doneSeen, sent, nreads>>

mapVars == <<mapLog>>

framerVars == <<event_id, conns>>

sessionVars == <<session, sessions, gens>>

cleanVars == <<clean_in, clean_out>>

vars == <<qwenVars, mapVars, framerVars, sessionVars, cleanVars>>

\* QwenLlm.__init__: self._session = None, and no call made yet
SessionIdle == session = 0 /\ sessions = <<>> /\ gens = <<>>

\* _clean_markdown_json has not been called
CleanIdle == clean_in = <<>> /\ clean_out = <<>>

-----------------------------------------------------------------------------
(* Symbols *)

QUOTE == "\""
LF == "\n"
CR == "\r"
ESC_LF == "\\n"
FENCE == "<fence>"
JSON_TAG == "json"
JSON_TAG_UPPER == "JSON"
DATA_PREFIX == "data: "
DONE == "[DONE]"
UTF8_LEAD == "xC3"
UTF8_CONT == "xA9"
E_ACUTE == "U+00E9"

\* str.strip() and the regex class \s: the whitespace characters
Whitespace == {" ", LF, CR}

\* the keys of the vendor shapes, each standing for the bytes "<key>":
Keys == {"output", "text", "finish_reason", "choices", "message", "delta",
         "content", "usage", "input_tokens", "total_tokens", "request_id"}

Numbers == {"0", "1", "2", "3"}

NumberValue(sym) == CASE sym = "0" -> 0 [] sym = "1" -> 1 [] sym = "2" -> 2 [] OTHER -> 3

Min(a, b) == IF a <= b THEN a ELSE b

Max(a, b) == IF a >= b THEN a ELSE b

RECURSIVE Flatten(_)
Flatten(ss) == IF ss = <<>> THEN <<>> ELSE Head(ss) \o Flatten(Tail(ss))

-----------------------------------------------------------------------------
(* Python string operations *)

\* str.startswith
StartsWith(s, p) == Len(p) <= Len(s) /\ SubSeq(s, 1, Len(p)) = p

\* s[n:]
DropFirst(s, n) == SubSeq(s, n + 1, Len(s))

\* str.find(c): the first index of c (1-based), 0 when absent (Python's -1)
Find(s, c) == IF \E i \in 1..Len(s) : s[i] = c
              THEN CHOOSE i \in 1..Len(s) : s[i] = c /\ \A j \in 1..(i - 1) : s[j] # c
              ELSE 0

\* str.rfind(c): the last index of c (1-based), 0 when absent
RFind(s, c) == IF \E i \in 1..Len(s) : s[i] = c
               THEN CHOOSE i \in 1..Len(s) : s[i] = c /\ \A j \in (i + 1)..Len(s) : s[j] # c
               ELSE 0

\* str.strip()
Strip(s) == IF \A i \in 1..Len(s) : s[i] \in Whitespace
            THEN <<>>
            ELSE LET a == CHOOSE i \in 1..Len(s) : s[i] \notin Whitespace /\ \A j \in 1..(i - 1) : s[j] \in Whitespace
                     b == CHOOSE i \in 1..Len(s) : s[i] \notin Whitespace /\ \A j \in (i + 1)..Len(s) : s[j] \in Whitespace
                 IN SubSeq(s, a, b)

\* str.split('\n'): the lines of s
RECURSIVE SplitLines(_)
SplitLines(s) == LET i == Find(s, LF)
                 IN IF i = 0 THEN <<s>>
                    ELSE <<SubSeq(s, 1, i - 1)>> \o SplitLines(DropFirst(s, i))

\* '\n'.join(lines)
RECURSIVE JoinLines(_)
JoinLines(ls) == IF ls = <<>> THEN <<>>
                 ELSE IF Len(ls) = 1 THEN ls[1]
                 ELSE ls[1] \o <<LF>> \o JoinLines(Tail(ls))

\* bytes.decode('utf-8', errors='ignore'): a two-byte character whose two
\* bytes are in the chunk becomes the character; a lead byte with no
\* continuation after it, and a continuation byte with no lead before it,
\* are dropped.
RECURSIVE Decode(_)
Decode(bytes) == IF bytes = <<>> THEN <<>>
                 ELSE IF bytes[1] = UTF8_LEAD
                 THEN IF Len(bytes) >= 2 /\ bytes[2] = UTF8_CONT
                      THEN <<E_ACUTE>> \o Decode(DropFirst(bytes, 2))
                      ELSE Decode(Tail(bytes))
                 ELSE IF bytes[1] = UTF8_CONT THEN Decode(Tail(bytes))
                 ELSE <<bytes[1]>> \o Decode(Tail(bytes))

-----------------------------------------------------------------------------
(* json.loads *)

\* A decoded JSON value: t is its Python type, s the characters of a str,
\* n the value of an int, m the members of a dict (key k, value v, in
\* document order) or the elements of a list (k = "").
NoneV == [t |-> "None", s |-> <<>>, n |-> 0, m |-> <<>>]

StrV(chars) == [t |-> "str", s |-> chars, n |-> 0, m |-> <<>>]

IntV(k) == [t |-> "int", s |-> <<>>, n |-> k, m |-> <<>>]

DictV(members) == [t |-> "dict", s |-> <<>>, n |-> 0, m |-> members]

ListV(elements) == [t |-> "list", s |-> <<>>, n |-> 0, m |-> elements]

JsonFail == [ok |-> FALSE, pos |-> 0, val |-> NoneV]

JsonOk(v, p) == [ok |-> TRUE, pos |-> p, val |-> v]

\* the first position >= i of s that holds no JSON whitespace
SkipWs(s, i) == IF \E j \in i..Len(s) : s[j] \notin Whitespace
                THEN CHOOSE j \in i..Len(s) : s[j] \notin Whitespace /\ \A k \in i..(j - 1) : s[k] \in Whitespace
                ELSE Len(s) + 1

\* the characters of a JSON string body: the escape \n is a line feed
Unescape(body) == [i \in 1..Len(body) |-> IF body[i] = ESC_LF THEN LF ELSE body[i]]

\* a JSON string starting at the quote s[i]: it ends at the next quote and
\* holds no raw control character
JsonString(s, i) ==
    IF \E j \in (i + 1)..Len(s) : s[j] = QUOTE
    THEN LET j == CHOOSE j \in (i + 1)..Len(s) : s[j] = QUOTE /\ \A k \in (i + 1)..(j - 1) : s[k] # QUOTE
             body == SubSeq(s, i + 1, j - 1)
         IN IF \E k \in 1..Len(body) : body[k] \in {LF, CR}
            THEN JsonFail
            ELSE JsonOk(StrV(Unescape(body)), j + 1)
    ELSE JsonFail

RECURSIVE JsonValue(_, _)
RECURSIVE JsonMembers(_, _, _)
RECURSIVE JsonElements(_, _, _)

\* the members of an object after its {: key value [, key value]* }
JsonMembers(s, i0, acc) ==
    LET i == SkipWs(s, i0)
    IN IF i > Len(s) \/ s[i] \notin Keys THEN JsonFail
       ELSE LET r == JsonValue(s, i + 1)
            IN IF ~r.ok THEN JsonFail
               ELSE LET j == SkipWs(s, r.pos)
                        members == Append(acc, [k |-> s[i], v |-> r.val])
                    IN IF j > Len(s) THEN JsonFail
                       ELSE IF s[j] = "}" THEN JsonOk(DictV(members), j + 1)
                       ELSE IF s[j] = "," THEN JsonMembers(s, j + 1, members)
                       ELSE JsonFail

\* the elements of an array after its [: value [, value]* ]
JsonElements(s, i0, acc) ==
    LET r == JsonValue(s, i0)
    IN IF ~r.ok THEN JsonFail
       ELSE LET j == SkipWs(s, r.pos)
                elements == Append(acc, [k |-> "", v |-> r.val])
            IN IF j > Len(s) THEN JsonFail
               ELSE IF s[j] = "]" THEN JsonOk(ListV(elements), j + 1)
               ELSE IF s[j] = "," THEN JsonElements(s, j + 1, elements)
               ELSE JsonFail

\* one JSON value starting at or after position i0
JsonValue(s, i0) ==
    LET i == SkipWs(s, i0)
    IN IF i > Len(s) THEN JsonFail
       ELSE IF s[i] = QUOTE THEN JsonString(s, i)
       ELSE IF s[i] = "null" THEN JsonOk(NoneV, i + 1)
       ELSE IF s[i] \in Numbers THEN JsonOk(IntV(NumberValue(s[i])), i + 1)
       ELSE IF s[i] = "{"
            THEN LET j == SkipWs(s, i + 1)
                 IN IF j <= Len(s) /\ s[j] = "}" THEN JsonOk(DictV(<<>>), j + 1)
                    ELSE JsonMembers(s, i + 1, <<>>)
       ELSE IF s[i] = "["
            THEN LET j == SkipWs(s, i + 1)
                 IN IF j <= Len(s) /\ s[j] = "]" THEN JsonOk(ListV(<<>>), j + 1)
                    ELSE JsonElements(s, i + 1, <<>>)
       ELSE JsonFail

\* json.loads(s): ok = FALSE stands for JSONDecodeError.  The whole text
\* must be one value, with nothing but whitespace after it.
JsonLoads(s) ==
    LET r == JsonValue(s, 1)
    IN IF r.ok /\ SkipWs(s, r.pos) > Len(s) THEN r ELSE JsonFail

-----------------------------------------------------------------------------
(* Python values *)

\* bool(v): the truth value Python gives a decoded value
Truthy(v) == CASE v.t = "None" -> FALSE
               [] v.t = "str" -> v.s # <<>>
               [] v.t = "int" -> v.n # 0
               [] OTHER -> v.m # <<>>

\* key in d, for a dict d
HasKey(d, key) == \E i \in 1..Len(d.m) : d.m[i].k = key

\* d[key] for a dict d that has the key: the last member of that name
Item(d, key) == LET i == CHOOSE i \in 1..Len(d.m) : d.m[i].k = key /\ \A j \in (i + 1)..Len(d.m) : d.m[j].k # key
                IN d.m[i].v

\* d.get(key, default)
Get(d, key, default) == IF HasKey(d, key) THEN Item(d, key) ELSE default

-----------------------------------------------------------------------------
(* _map_finish_reason *)

Uppers == <<"A", "B", "C", "D", "E", "F", "G", "H", "I", "J", "K", "L", "M",
            "N", "O", "P", "Q", "R", "S", "T", "U", "V", "W", "X", "Y", "Z">>

Lowers == <<"a", "b", "c", "d", "e", "f", "g", "h", "i", "j", "k", "l", "m",
            "n", "o", "p", "q", "r", "s", "t", "u", "v", "w", "x", "y", "z">>

LowerChar(c) == IF \E i \in 1..Len(Uppers) : Uppers[i] = c
                THEN Lowers[CHOOSE i \in 1..Len(Uppers) : Uppers[i] = c]
                ELSE c

\* str.lower()
Lower(s) == [i \in 1..Len(s) |-> LowerChar(s[i])]

W_stop == <<"s", "t", "o", "p">>
W_length == <<"l", "e", "n", "g", "t", "h">>
W_content_filter == <<"c", "o", "n", "t", "e", "n", "t", "_", "f", "i", "l", "t", "e", "r">>
W_function_call == <<"f", "u", "n", "c", "t", "i", "o", "n", "_", "c", "a", "l", "l">>
W_tool_calls == <<"t", "o", "o", "l", "_", "c", "a", "l", "l", "s">>

\* the mapping table: the vendor reasons and the FinishReason of each
FinishMapping == << <<W_stop, "STOP">>, <<W_length, "MAX_TOKENS">>, <<W_content_filter, "SAFETY">>,
                    <<W_function_call, "STOP">>, <<W_tool_calls, "STOP">> >>

\* mapping.get(key, types.FinishReason.STOP)
MappingGet(key) == IF \E i \in 1..Len(FinishMapping) : FinishMapping[i][1] = key
                   THEN FinishMapping[CHOOSE i \in 1..Len(FinishMapping) : FinishMapping[i][1] = key][2]
                   ELSE "STOP"

\* a mutant of QwenMapFinishReason: the reason is looked up as it is
\* spelled, without lower()
QwenMapCaseSensitive(qwen_finish_reason) ==
    IF ~Truthy(qwen_finish_reason) THEN "None"
    ELSE MappingGet(qwen_finish_reason.s)

\* QwenLlm._map_finish_reason, for None or a str: "None" stands for None
QwenMapFinishReason(qwen_finish_reason) ==
    IF ~Truthy(qwen_finish_reason) THEN "None"
    ELSE MappingGet(Lower(qwen_finish_reason.s))

\* OpenAILlm._map_finish_reason, for None or a str
OpenAIMapFinishReason(openai_finish_reason) ==
    IF ~Truthy(openai_finish_reason) THEN "None"
    ELSE MappingGet(Lower(openai_finish_reason.s))

-----------------------------------------------------------------------------
(* _clean_markdown_json *)

\* code_block_start.match(line): ^\s*(fence)(?:json)?\s*$
CodeBlockStart(line) == Strip(line) \in {<<FENCE>>, <<FENCE, JSON_TAG>>}

\* code_block_end.match(line): ^\s*(fence)\s*$
CodeBlockEnd(line) == Strip(line) = <<FENCE>>

\* the for loop without its last branch: the lines inside a fence are lost
RECURSIVE CleanedLinesOutsideOnly(_, _)
CleanedLinesOutsideOnly(lines, in_code_block) ==
    IF lines = <<>> THEN <<>>
    ELSE IF CodeBlockStart(Head(lines)) THEN CleanedLinesOutsideOnly(Tail(lines), TRUE)
    ELSE IF in_code_block /\ CodeBlockEnd(Head(lines)) THEN CleanedLinesOutsideOnly(Tail(lines), FALSE)
    ELSE IF ~in_code_block THEN <<Head(lines)>> \o CleanedLinesOutsideOnly(Tail(lines), in_code_block)
    ELSE CleanedLinesOutsideOnly(Tail(lines), in_code_block)

\* the for loop over the lines: the lines kept, given the fence state
RECURSIVE CleanedLines(_, _)
CleanedLines(lines, in_code_block) ==
    IF lines = <<>> THEN <<>>
    ELSE IF CodeBlockStart(Head(lines)) THEN CleanedLines(Tail(lines), TRUE)
    ELSE IF in_code_block /\ CodeBlockEnd(Head(lines)) THEN CleanedLines(Tail(lines), FALSE)
    ELSE <<Head(lines)>> \o CleanedLines(Tail(lines), in_code_block)

\* the value of in_code_block when the for loop has gone over the lines
RECURSIVE InCodeBlockAfter(_, _)
InCodeBlockAfter(lines, in_code_block) ==
    IF lines = <<>> THEN in_code_block
    ELSE IF CodeBlockStart(Head(lines)) THEN InCodeBlockAfter(Tail(lines), TRUE)
    ELSE IF in_code_block /\ CodeBlockEnd(Head(lines)) THEN InCodeBlockAfter(Tail(lines), FALSE)
    ELSE InCodeBlockAfter(Tail(lines), in_code_block)

\* re.findall(extract_pattern, text, re.IGNORECASE): the capture of the
\* first match of (fence)(?:json)?\s*([\s\S]*?)(fence), found = FALSE when
\* nothing matches
ExtractFirstBlock(text) ==
    LET i == Find(text, FENCE)
        after == DropFirst(text, i)
        untagged == IF after # <<>> /\ after[1] \in {JSON_TAG, JSON_TAG_UPPER} THEN Tail(after) ELSE after
        body == DropFirst(untagged, SkipWs(untagged, 1) - 1)
        j == Find(body, FENCE)
    IN IF i = 0 \/ j = 0 THEN [found |-> FALSE, group |-> <<>>]
       ELSE [found |-> TRUE, group |-> SubSeq(body, 1, j - 1)]

\* the last line is return result, without its strip
CleanMarkdownJsonNoFinalStrip(text0) ==
    IF text0 = <<>> THEN <<>>
    ELSE LET text == Strip(text0)
             result == JoinLines(CleanedLines(SplitLines(text), FALSE))
             m == ExtractFirstBlock(text)
         IN IF Strip(result) = <<>> /\ m.found THEN Strip(m.group)
            ELSE result

\* QwenLlm._clean_markdown_json(text), for a str
CleanMarkdownJson(text0) ==
    IF text0 = <<>> THEN <<>>
    ELSE LET text == Strip(text0)
             result == JoinLines(CleanedLines(SplitLines(text), FALSE))
             m == ExtractFirstBlock(text)
         IN IF Strip(result) = <<>> /\ m.found THEN Strip(m.group)
            ELSE Strip(result)

-----------------------------------------------------------------------------
(* The unit of one decoded JSON value: text, completion reason, events *)

W_output == <<"o", "u", "t", "p", "u", "t">>
W_choices == <<"c", "h", "o", "i", "c", "e", "s">>
W_message == <<"m", "e", "s", "s", "a", "g", "e">>
W_delta == <<"d", "e", "l", "t", "a">>
W_usage == <<"u", "s", "a", "g", "e">>

KeyChars(key) == CASE key = "output" -> W_output [] key = "choices" -> W_choices
                   [] key = "message" -> W_message [] key = "delta" -> W_delta
                   [] OTHER -> W_usage

\* key in v for any decoded value v: "yes", "no", or "TypeError" (None
\* and int are not containers); a str is searched for the substring, a
\* list for an equal element
PyIn(key, v) ==
    CASE v.t \in {"None", "int"} -> "TypeError"
      [] v.t = "dict" -> IF HasKey(v, key) THEN "yes" ELSE "no"
      [] v.t = "str" -> IF \E i \in 1..Len(v.s) : i + Len(KeyChars(key)) - 1 <= Len(v.s)
                                                  /\ SubSeq(v.s, i, i + Len(KeyChars(key)) - 1) = KeyChars(key)
                        THEN "yes" ELSE "no"
      [] OTHER -> IF \E i \in 1..Len(v.m) : v.m[i].v.t = "str" /\ v.m[i].v.s = KeyChars(key)
                  THEN "yes" ELSE "no"

\* what the extraction yields: the current text, the completion reason
\* (both decoded values), or raised = TRUE for an exception
Raised == [raised |-> TRUE, current_text |-> StrV(<<>>), finish_reason_str |-> NoneV]

Extracted(text, reason) == [raised |-> FALSE, current_text |-> text, finish_reason_str |-> reason]

\* the choice's text under inner ("message" or "delta") and its reason
ChoiceText(choice, inner) ==
    IF Item(choice, inner).t # "dict" THEN Raised
    ELSE Extracted(Get(Item(choice, inner), "content", StrV(<<>>)), Get(choice, "finish_reason", NoneV))

\* the elif "choices" in data branch
ChoicesText(data) ==
    LET choices == Item(data, "choices")
    IN IF ~Truthy(choices) THEN Extracted(StrV(<<>>), NoneV)
       ELSE IF choices.t \in {"dict", "int"} THEN Raised
       ELSE LET choice == IF choices.t = "str" THEN StrV(<<choices.s[1]>>) ELSE choices.m[1].v
                hasMessage == PyIn("message", choice)
                hasDelta == PyIn("delta", choice)
            IN IF hasMessage = "TypeError" THEN Raised
               ELSE IF hasMessage = "yes"
                    THEN IF choice.t = "dict" THEN ChoiceText(choice, "message") ELSE Raised
               ELSE IF hasDelta = "yes"
                    THEN IF choice.t = "dict" THEN ChoiceText(choice, "delta") ELSE Raised
               ELSE Extracted(StrV(<<>>), NoneV)

\* the extraction of current_text and finish_reason_str from data
ExtractText(data) ==
    LET hasOutput == PyIn("output", data)
        hasChoices == PyIn("choices", data)
    IN IF hasOutput = "TypeError" THEN Raised
       ELSE IF hasOutput = "yes"
            THEN IF data.t # "dict" \/ Item(data, "output").t # "dict" THEN Raised
                 ELSE Extracted(Get(Item(data, "output"), "text", StrV(<<>>)),
                                Get(Item(data, "output"), "finish_reason", NoneV))
       ELSE IF hasChoices = "yes"
            THEN IF data.t # "dict" THEN Raised ELSE ChoicesText(data)
       ELSE Extracted(StrV(<<>>), NoneV)

\* an LlmResponse: content is <<>> for None and <<text>> for a Content of
\* one text Part; usage_metadata is <<>> for None and <<prompt, total>>
TextResponse(text) == [content |-> <<text>>, finish_reason |-> "None", usage_metadata |-> <<>>]

FinalResponse(reason, usage) == [content |-> <<>>, finish_reason |-> reason, usage_metadata |-> usage]

\* the outcome of one unit: the events yielded, the accumulated text after
\* it, and whether an exception left the try block
UnitOutcome(events, acc, raised) == [events |-> events, accumulated_text |-> acc, raised |-> raised]

\* a mutant of Increment: the incremental text is the whole current text,
\* the accumulated prefix is not cut off
IncrementWholeText(current_text, acc) ==
    IF ~Truthy(current_text) THEN [raised |-> FALSE, inc |-> <<>>, acc |-> acc]
    ELSE IF current_text.t # "str" THEN [raised |-> TRUE, inc |-> <<>>, acc |-> acc]
    ELSE IF StartsWith(current_text.s, acc)
         THEN [raised |-> FALSE, inc |-> current_text.s, acc |-> current_text.s]
    ELSE [raised |-> FALSE, inc |-> <<>>, acc |-> acc]

\* a mutant of Increment: accumulated_text = current_text is done for
\* every str, outside the if
IncrementAlwaysAssign(current_text, acc) ==
    IF current_text.t # "str" THEN [raised |-> Truthy(current_text), inc |-> <<>>, acc |-> acc]
    ELSE IF current_text.s # <<>> /\ StartsWith(current_text.s, acc)
         THEN [raised |-> FALSE, inc |-> DropFirst(current_text.s, Len(acc)), acc |-> current_text.s]
    ELSE [raised |-> FALSE, inc |-> <<>>, acc |-> current_text.s]

\* if current_text and current_text.startswith(accumulated_text): the
\* incremental text, the new accumulated text, and whether to yield
Increment(current_text, acc) ==
    IF ~Truthy(current_text) THEN [raised |-> FALSE, inc |-> <<>>, acc |-> acc]
    ELSE IF current_text.t # "str" THEN [raised |-> TRUE, inc |-> <<>>, acc |-> acc]
    ELSE IF StartsWith(current_text.s, acc)
         THEN [raised |-> FALSE, inc |-> DropFirst(current_text.s, Len(acc)), acc |-> current_text.s]
    ELSE [raised |-> FALSE, inc |-> <<>>, acc |-> acc]

\* the body of the try block of _process_sse_stream after json.loads
SseUnit(data, acc) ==
    LET x == ExtractText(data)
        d == Increment(x.current_text, acc)
        deltas == IF d.inc # <<>> THEN <<TextResponse(d.inc)>> ELSE <<>>
    IN IF x.raised THEN UnitOutcome(<<>>, acc, TRUE)
       ELSE IF d.raised THEN UnitOutcome(<<>>, acc, TRUE)
       ELSE IF ~Truthy(x.finish_reason_str) THEN UnitOutcome(deltas, d.acc, FALSE)
       ELSE IF x.finish_reason_str.t # "str" THEN UnitOutcome(deltas, d.acc, TRUE)
       ELSE UnitOutcome(Append(deltas, FinalResponse(QwenMapFinishReason(x.finish_reason_str), <<>>)), d.acc, FALSE)

\* a token count for GenerateContentResponseUsageMetadata: an int, or -1
\* for None
CountOf(v) == IF v.t = "int" THEN v.n ELSE -1

\* the usage_metadata of the JSON path: <<>> when there is no usage
UsageMetadata(usage_data) ==
    IF ~Truthy(usage_data) THEN [raised |-> FALSE, usage |-> <<>>]
    ELSE IF usage_data.t # "dict" THEN [raised |-> TRUE, usage |-> <<>>]
    ELSE LET prompt == Get(usage_data, "input_tokens", IntV(0))
             total == Get(usage_data, "total_tokens", IntV(0))
         IN IF prompt.t \notin {"int", "None"} \/ total.t \notin {"int", "None"}
            THEN [raised |-> TRUE, usage |-> <<>>]
            ELSE [raised |-> FALSE, usage |-> <<CountOf(prompt), CountOf(total)>>]

\* the body of the try block of _process_json_stream after json.loads
JsonUnit(data, acc) ==
    LET x == ExtractText(data)
        hasUsage == PyIn("usage", data)
        usage_data == IF hasUsage = "yes" /\ data.t = "dict" THEN Item(data, "usage") ELSE NoneV
        d == Increment(x.current_text, acc)
        deltas == IF d.inc # <<>> THEN <<TextResponse(CleanMarkdownJson(d.inc))>> ELSE <<>>
        u == UsageMetadata(usage_data)
    IN IF x.raised THEN UnitOutcome(<<>>, acc, TRUE)
       ELSE IF hasUsage = "yes" /\ data.t # "dict" THEN UnitOutcome(<<>>, acc, TRUE)
       ELSE IF d.raised THEN UnitOutcome(<<>>, acc, TRUE)
       ELSE IF ~Truthy(x.finish_reason_str) THEN UnitOutcome(deltas, d.acc, FALSE)
       ELSE IF x.finish_reason_str.t # "str" \/ u.raised THEN UnitOutcome(deltas, d.acc, TRUE)
       ELSE UnitOutcome(Append(deltas, FinalResponse(QwenMapFinishReason(x.finish_reason_str), u.usage)), d.acc, FALSE)

-----------------------------------------------------------------------------
(* The two stream processors, one read of the transport at a time *)

\* The locals of a running processor, with the history kept beside them.
Locals == [buffer |-> buffer, accumulated_text |-> accumulated_text, emitted |-> emitted,
           loaded |-> loaded, lastLoad |-> lastLoad, doneSeen |-> doneSeen, raised |-> FALSE]

\* The locals when the generator starts: buffer = "", accumulated_text = "".
StartLocals == [buffer |-> <<>>, accumulated_text |-> <<>>, emitted |-> <<>>,
                loaded |-> <<>>, lastLoad |-> "none", doneSeen |-> FALSE, raised |-> FALSE]

\* a mutant of SseData: the JSONDecodeError is not caught and leaves the
\* generator
SseDataDecodeErrorFatal(st, data_str) ==
    LET r == JsonLoads(data_str)
        u == SseUnit(r.val, st.accumulated_text)
    IN IF ~r.ok THEN [st EXCEPT !.lastLoad = "JSONDecodeError", !.raised = TRUE]
       ELSE [st EXCEPT !.accumulated_text = u.accumulated_text,
                       !.emitted = @ \o u.events,
                       !.loaded = Append(@, r.val),
                       !.lastLoad = "loaded",
                       !.raised = u.raised]

\* the try block of _process_sse_stream on data_str, the line being
\* already cut from the buffer
SseData(st, data_str) ==
    LET r == JsonLoads(data_str)
        u == SseUnit(r.val, st.accumulated_text)
    IN IF ~r.ok THEN [st EXCEPT !.lastLoad = "JSONDecodeError"]
       ELSE [st EXCEPT !.accumulated_text = u.accumulated_text,
                       !.emitted = @ \o u.events,
                       !.loaded = Append(@, r.val),
                       !.lastLoad = "loaded",
                       !.raised = u.raised]

\* the loop while '\n' in buffer of _process_sse_stream: it ends when
\* the buffer holds no complete line, at the break on [DONE], or when an
\* exception other than JSONDecodeError leaves the generator
RECURSIVE SseLines(_)
SseLines(st) ==
    LET i == Find(st.buffer, LF)
        line == Strip(SubSeq(st.buffer, 1, i - 1))
        cut == [st EXCEPT !.buffer = DropFirst(st.buffer, i)]
    IN IF i = 0 THEN st
       ELSE IF line = <<>> THEN SseLines(cut)
       ELSE IF line[1] # DATA_PREFIX THEN SseLines(cut)
       ELSE IF Tail(line) = <<DONE>> THEN [cut EXCEPT !.doneSeen = TRUE]
       ELSE LET after == SseData(cut, Tail(line))
            IN IF after.raised THEN after ELSE SseLines(after)

\* a mutant of SseChunk: buffer = chunk_str, what the buffer held is lost
SseChunkNoCarry(st, chunk) ==
    IF chunk = <<>> THEN st
    ELSE SseLines([st EXCEPT !.buffer = Decode(chunk), !.lastLoad = "none"])

\* one iteration of async for chunk of _process_sse_stream
SseChunk(st, chunk) ==
    IF chunk = <<>> THEN st
    ELSE SseLines([st EXCEPT !.buffer = @ \o Decode(chunk), !.lastLoad = "none"])

\* one iteration of async for chunk of _process_json_stream; every
\* exception of the try block is caught and the loop goes on
JsonChunk(st, chunk) ==
    LET filled == st.buffer \o Decode(chunk)
        start == Find(filled, "{")
        end == RFind(filled, "}")
        json_str == SubSeq(filled, start, end)
        r == JsonLoads(json_str)
        u == JsonUnit(r.val, st.accumulated_text)
    IN IF chunk = <<>> THEN st
       ELSE IF ~(start # 0 /\ end # 0 /\ end > start)
            THEN [st EXCEPT !.buffer = filled, !.lastLoad = "none"]
       ELSE IF ~r.ok
            THEN [st EXCEPT !.buffer = DropFirst(filled, end), !.lastLoad = "JSONDecodeError"]
       ELSE [st EXCEPT !.buffer = DropFirst(filled, end),
                       !.accumulated_text = u.accumulated_text,
                       !.emitted = @ \o u.events,
                       !.loaded = Append(@, r.val),
                       !.lastLoad = "loaded"]

-----------------------------------------------------------------------------
(* The vendor's byte streams *)

MaxUnits == 2

\* a JSON string literal: the quotes, and a line feed written as \n
JsonQuote(chars) == <<QUOTE>> \o [i \in 1..Len(chars) |-> IF chars[i] = LF THEN ESC_LF ELSE chars[i]] \o <<QUOTE>>

\* Shape A: {"output": {"text": ..., "finish_reason": ...}}; reason <<>>
\* writes no finish_reason
OutputUnit(text, reason) ==
    <<"{", "output", "{", "text">> \o JsonQuote(text)
    \o (IF reason = <<>> THEN <<>> ELSE <<",", "finish_reason">> \o JsonQuote(reason))
    \o <<"}", "}">>

\* Shape B, streaming: {"choices": [{"delta": {"content": ...}}]}
DeltaUnit(text) ==
    <<"{", "choices", "[", "{", "delta", "{", "content">> \o JsonQuote(text) \o <<"}", "}", "]", "}">>

\* a bookkeeping frame: neither "output" nor "choices"
BookkeepingUnit == <<"{", "request_id", QUOTE, "x", QUOTE, "}">>

\* the JSON units a vendor stream is made of
SampleUnits ==
    { OutputUnit(<<"a">>, <<>>), OutputUnit(<<"a", "b">>, <<>>),
      OutputUnit(<<"a", "b">>, W_stop), OutputUnit(<<>>, <<>>),
      DeltaUnit(<<"b">>), BookkeepingUnit }

\* SSE framing of a unit: data: <json>\n\n
SseLine(unit) == <<DATA_PREFIX>> \o unit \o <<LF, LF>>

DoneLine == <<DATA_PREFIX, DONE, LF, LF>>

SampleLines == {SseLine(u) : u \in SampleUnits} \cup {DoneLine}

\* every concatenation of 1..MaxUnits of the pieces
StreamsOf(pieces) == {Flatten(f) : f \in UNION {[1..n -> pieces] : n \in 1..MaxUnits}}

\* the end-to-end scenario: the cumulative texts a, ab, ab with the reason
\* stop, then [DONE]
ScenarioStream ==
    SseLine(OutputUnit(<<"a">>, <<>>)) \o SseLine(OutputUnit(<<"a", "b">>, <<>>))
    \o SseLine(OutputUnit(<<"a", "b">>, W_stop)) \o DoneLine

SseStreams == StreamsOf(SampleLines) \cup {ScenarioStream}

JsonStreams == StreamsOf(SampleUnits)

-----------------------------------------------------------------------------
(* One generation of QwenLlm.generate_content_async, streaming *)

QwenInit ==
    /\ path \in {"sse", "json"}
    /\ wire \in (IF path = "sse" THEN SseStreams ELSE JsonStreams)
    /\ buffer = StartLocals.buffer
    /\ accumulated_text = StartLocals.accumulated_text
    /\ emitted = StartLocals.emitted
    /\ loaded = StartLocals.loaded
    /\ lastLoad = StartLocals.lastLoad
    /\ doneSeen = StartLocals.doneSeen
    /\ status = "reading"
    /\ sent = <<>>
    /\ nreads = "none"
    /\ mapLog = <<>>
    /\ event_id = 0
    /\ conns = <<>>
    /\ SessionIdle
    /\ CleanIdle

\* the processor takes the locals st after reading the first n bytes
Deliver(st, n) ==
    /\ buffer' = st.buffer
    /\ accumulated_text' = st.accumulated_text
    /\ emitted' = st.emitted
    /\ loaded' = st.loaded
    /\ lastLoad' = st.lastLoad
    /\ doneSeen' = st.doneSeen
    /\ status' = IF st.raised THEN "raised" ELSE "reading"
    /\ sent' = sent \o SubSeq(wire, 1, n)
    /\ nreads' = IF nreads = "none" THEN "one" ELSE "several"
    /\ wire' = DropFirst(wire, n)
    /\ UNCHANGED <<path, mapVars, framerVars, sessionVars, cleanVars>>

\* response.content.iter_any() hands _process_sse_stream the next bytes
SseRead ==
    /\ path = "sse" /\ status = "reading"
    /\ \E n \in 1..Len(wire) : Deliver(SseChunk(Locals, SubSeq(wire, 1, n)), n)

\* response.content.iter_any() hands _process_json_stream the next bytes
JsonRead ==
    /\ path = "json" /\ status = "reading"
    /\ \E n \in 1..Len(wire) : Deliver(JsonChunk(Locals, SubSeq(wire, 1, n)), n)

\* the transport is exhausted: the async for ends and the generator returns
EndOfStream ==
    /\ status = "reading" /\ wire = <<>>
    /\ status' = "ended"
    /\ UNCHANGED <<path, wire, buffer, accumulated_text, emitted, loaded, lastLoad, doneSeen, sent, nreads>>
    /\ UNCHANGED <<mapVars, framerVars, sessionVars, cleanVars>>

\* no generation is running
QwenIdle ==
    /\ path = "none" /\ wire = <<>> /\ buffer = <<>> /\ accumulated_text = <<>>
    /\ emitted = <<>> /\ status = "idle" /\ loaded = <<>> /\ lastLoad = "none"
    /\ doneSeen = FALSE /\ sent = <<>> /\ nreads = "none"

QwenNext == SseRead \/ JsonRead \/ EndOfStream

\* one streaming generation of QwenLlm, the vendor's bytes cut into reads
\* in every way
Spec == QwenInit /\ [][QwenNext]_vars

-----------------------------------------------------------------------------
(* _map_finish_reason on its own *)

MaxCalls == 2

\* every spelling of the word w in upper and lower case letters
CaseVariants(w) ==
    {s \in [1..Len(w) -> {w[i] : i \in 1..Len(w)} \cup {Uppers[k] : k \in 1..Len(Uppers)}] :
        \A i \in 1..Len(w) : LowerChar(s[i]) = w[i]}

\* all upper case
Upper(w) == [i \in 1..Len(w) |-> IF \E k \in 1..Len(Lowers) : Lowers[k] = w[i]
                                  THEN Uppers[CHOOSE k \in 1..Len(Lowers) : Lowers[k] = w[i]]
                                  ELSE w[i]]

\* first letter upper case
Capitalized(w) == <<Upper(w)[1]>> \o Tail(w)

W_null == <<"n", "u", "l", "l">>
W_eos == <<"e", "o", "s">>

\* the reasons handed to the mappers: None, the empty string, the table's
\* words and two words that are not in the table, in several spellings
ReasonStrings ==
    {<<>>} \cup CaseVariants(W_stop) \cup CaseVariants(W_eos)
    \cup UNION {{w, Upper(w), Capitalized(w)} : w \in {W_length, W_content_filter, W_function_call, W_tool_calls, W_null}}

ReasonArguments == {NoneV} \cup {StrV(s) : s \in ReasonStrings}

\* a call of QwenLlm._map_finish_reason
QwenMapCall ==
    /\ Len(mapLog) < MaxCalls
    /\ \E arg \in ReasonArguments :
          mapLog' = Append(mapLog, [adapter |-> "qwen", arg |-> arg, result |-> QwenMapFinishReason(arg)])
    /\ UNCHANGED <<qwenVars, framerVars, sessionVars, cleanVars>>

\* a call of OpenAILlm._map_finish_reason
OpenAIMapCall ==
    /\ Len(mapLog) < MaxCalls
    /\ \E arg \in ReasonArguments :
          mapLog' = Append(mapLog, [adapter |-> "openai", arg |-> arg, result |-> OpenAIMapFinishReason(arg)])
    /\ UNCHANGED <<qwenVars, framerVars, sessionVars, cleanVars>>

MapInit == QwenIdle /\ mapLog = <<>> /\ event_id = 0 /\ conns = <<>> /\ SessionIdle /\ CleanIdle

MapNext == QwenMapCall \/ OpenAIMapCall

\* the finish reason mappers of both adapters, called on any reasons
MapSpec == MapInit /\ [][MapNext]_vars

-----------------------------------------------------------------------------
(* main.py: the SSE framer and agent_stream_generator *)

MaxConns == 2
MaxEvents == 2
MaxFrames == 5

\* the two fixed texts of agent_stream_generator, each one symbol
APOLOGY == <<"<apology>">>
DEFAULT_RESPONSE == <<"<default response>">>

\* a generator whose counter starts anew for every event: each frame has
\* the id 1
GenerateSseEventFreshCounter(last_id, event_type, text, full) ==
    [id |-> 1, event |-> event_type, text |-> text, full |-> full]

\* SSEGenerator.generate_sse_event(data, event_type), called when the
\* counter holds last_id: the frame written.  text is the data's "text" or
\* "error"; full is <<>> when the data has no full_response and
\* <<full_response>> when it has one.
GenerateSseEvent(last_id, event_type, text, full) ==
    [id |-> last_id + 1, event |-> event_type, text |-> text, full |-> full]

\* a connection that chat_stream has accepted; nevents counts the events
\* the orchestrator has yielded and content_none those of them whose
\* content was None
NewConnection(pc, frames) ==
    [pc |-> pc, parts |-> <<>>, full_response |-> <<>>, frames |-> frames, nevents |-> 0, content_none |-> 0]

\* the parts of the content events the orchestrator yields: each part is
\* its text, <<>> for a part with no text
SampleParts == { <<>>, << <<"a">>, <<"b">> >>, << <<>> >> }

\* the connection c writes one more frame and goes to pc
WriteFrame(c, event_type, text, full, pc) ==
    /\ event_id < MaxFrames
    /\ event_id' = event_id + 1
    /\ conns' = [conns EXCEPT ![c].frames = Append(@, GenerateSseEvent(event_id, event_type, text, full)),
                              ![c].pc = pc]

\* chat_stream: a request with a message; the response streams
\* agent_stream_generator
ChatStream ==
    /\ Len(conns) < MaxConns
    /\ conns' = Append(conns, NewConnection("start", <<>>))
    /\ UNCHANGED <<event_id, qwenVars, mapVars, sessionVars, cleanVars>>

\* chat_stream: a request with no message, or one that is not JSON: the
\* response is one error frame, made when the request is handled
ChatStreamRejected ==
    /\ Len(conns) < MaxConns /\ event_id < MaxFrames
    /\ event_id' = event_id + 1
    /\ conns' = Append(conns, NewConnection("done", <<GenerateSseEvent(event_id, "error", <<"<bad request>">>, <<>>)>>))
    /\ UNCHANGED <<qwenVars, mapVars, sessionVars, cleanVars>>

\* agent_stream_generator up to the loop: the session is found or made
\* and the run started
StartRun(c) ==
    /\ conns[c].pc = "start"
    /\ conns' = [conns EXCEPT ![c].pc = "loop"]
    /\ UNCHANGED <<event_id, qwenVars, mapVars, sessionVars, cleanVars>>

\* agent_stream_generator up to the loop raises: the outer except writes
\* an error frame with no full_response
StartRunFails(c) ==
    /\ conns[c].pc = "start"
    /\ WriteFrame(c, "error", <<"<system error>">>, <<>>, "done")
    /\ UNCHANGED <<qwenVars, mapVars, sessionVars, cleanVars>>

\* the orchestrator yields an event whose content has the parts ps
ContentEvent(c) ==
    /\ conns[c].pc = "loop" /\ conns[c].nevents < MaxEvents
    /\ \E ps \in SampleParts :
          conns' = [conns EXCEPT ![c].parts = ps, ![c].nevents = @ + 1,
                                 ![c].pc = IF ps = <<>> THEN "loop" ELSE "parts"]
    /\ UNCHANGED <<event_id, qwenVars, mapVars, sessionVars, cleanVars>>

\* full_response = text_chunk in place of +=: the texts before are lost
PartWithTextOverwrites(c) ==
    /\ conns[c].pc = "parts" /\ conns[c].parts # <<>> /\ Head(conns[c].parts) # <<>>
    /\ event_id < MaxFrames
    /\ event_id' = event_id + 1
    /\ conns' = [conns EXCEPT ![c].full_response = Head(conns[c].parts),
                              ![c].frames = Append(@, GenerateSseEvent(event_id, "message", Head(conns[c].parts), <<>>)),
                              ![c].parts = Tail(@),
                              ![c].pc = IF Tail(conns[c].parts) = <<>> THEN "loop" ELSE "parts"]
    /\ UNCHANGED <<qwenVars, mapVars, sessionVars, cleanVars>>

\* the for loop over the parts: a part with text is added to
\* full_response and written as a message frame
PartWithText(c) ==
    /\ conns[c].pc = "parts" /\ conns[c].parts # <<>> /\ Head(conns[c].parts) # <<>>
    /\ event_id < MaxFrames
    /\ event_id' = event_id + 1
    /\ conns' = [conns EXCEPT ![c].full_response = @ \o Head(conns[c].parts),
                              ![c].frames = Append(@, GenerateSseEvent(event_id, "message", Head(conns[c].parts), <<>>)),
                              ![c].parts = Tail(@),
                              ![c].pc = IF Tail(conns[c].parts) = <<>> THEN "loop" ELSE "parts"]
    /\ UNCHANGED <<qwenVars, mapVars, sessionVars, cleanVars>>

\* the for loop over the parts: a part with no text is passed over
PartWithoutText(c) ==
    /\ conns[c].pc = "parts" /\ conns[c].parts # <<>> /\ Head(conns[c].parts) = <<>>
    /\ conns' = [conns EXCEPT ![c].parts = Tail(@),
                              ![c].pc = IF Tail(conns[c].parts) = <<>> THEN "loop" ELSE "parts"]
    /\ UNCHANGED <<event_id, qwenVars, mapVars, sessionVars, cleanVars>>

\* the orchestrator yields an event with an agent_response that has a
\* text: a complete frame, then break
AgentResponseEvent(c) ==
    /\ conns[c].pc = "loop" /\ conns[c].nevents < MaxEvents
    /\ event_id < MaxFrames
    /\ event_id' = event_id + 1
    /\ conns' = [conns EXCEPT ![c].frames = Append(@, GenerateSseEvent(event_id, "complete", <<"<agent response>">>, <<conns[c].full_response>>)),
                              ![c].nevents = @ + 1,
                              ![c].pc = "after"]
    /\ UNCHANGED <<qwenVars, mapVars, sessionVars, cleanVars>>

\* a mutant of LoopRaises: the inner except lacks its return and control
\* goes on to the code after the loop
LoopRaisesNoReturn(c) ==
    /\ conns[c].pc = "loop"
    /\ WriteFrame(c, "error", <<"<stream error>">>,
                  <<IF conns[c].full_response # <<>> THEN conns[c].full_response ELSE APOLOGY>>, "after")
    /\ UNCHANGED <<qwenVars, mapVars, sessionVars, cleanVars>>

\* the orchestrator yields an event whose content is None:
\* event.content.parts raises AttributeError, the inner except writes an
\* error frame and returns
ContentNoneEvent(c) ==
    /\ conns[c].pc = "loop" /\ conns[c].nevents < MaxEvents
    /\ event_id < MaxFrames
    /\ event_id' = event_id + 1
    /\ conns' = [conns EXCEPT ![c].frames = Append(@, GenerateSseEvent(event_id, "error", <<"<stream error>">>,
                                                  <<IF conns[c].full_response # <<>> THEN conns[c].full_response ELSE APOLOGY>>)),
                              ![c].nevents = @ + 1,
                              ![c].content_none = @ + 1,
                              ![c].pc = "done"]
    /\ UNCHANGED <<qwenVars, mapVars, sessionVars, cleanVars>>

\* the orchestrator's iterator raises: the inner except writes an error
\* frame and returns
LoopRaises(c) ==
    /\ conns[c].pc = "loop"
    /\ WriteFrame(c, "error", <<"<stream error>">>,
                  <<IF conns[c].full_response # <<>> THEN conns[c].full_response ELSE APOLOGY>>, "done")
    /\ UNCHANGED <<qwenVars, mapVars, sessionVars, cleanVars>>

\* the orchestrator's iterator is exhausted
LoopEnds(c) ==
    /\ conns[c].pc = "loop"
    /\ conns' = [conns EXCEPT ![c].pc = "after"]
    /\ UNCHANGED <<event_id, qwenVars, mapVars, sessionVars, cleanVars>>

\* after the loop: a complete frame with the full response, or with the
\* default response when nothing was received
AfterLoop(c) ==
    /\ conns[c].pc = "after"
    /\ IF conns[c].full_response # <<>>
       THEN WriteFrame(c, "complete", conns[c].full_response, <<conns[c].full_response>>, "done")
       ELSE WriteFrame(c, "complete", DEFAULT_RESPONSE, <<DEFAULT_RESPONSE>>, "done")
    /\ UNCHANGED <<qwenVars, mapVars, sessionVars, cleanVars>>

FramerInit == QwenIdle /\ mapLog = <<>> /\ event_id = 0 /\ conns = <<>> /\ SessionIdle /\ CleanIdle

FramerNext ==
    \/ ChatStream
    \/ ChatStreamRejected
    \/ \E c \in 1..Len(conns) : StartRun(c)
    \/ \E c \in 1..Len(conns) : StartRunFails(c)
    \/ \E c \in 1..Len(conns) : ContentEvent(c)
    \/ \E c \in 1..Len(conns) : PartWithText(c)
    \/ \E c \in 1..Len(conns) : PartWithoutText(c)
    \/ \E c \in 1..Len(conns) : AgentResponseEvent(c)
    \/ \E c \in 1..Len(conns) : ContentNoneEvent(c)
    \/ \E c \in 1..Len(conns) : LoopRaises(c)
    \/ \E c \in 1..Len(conns) : LoopEnds(c)
    \/ \E c \in 1..Len(conns) : AfterLoop(c)

\* the HTTP layer serving its connections, their generators interleaved at
\* every yield
FramerSpec == FramerInit /\ [][FramerNext]_vars

-----------------------------------------------------------------------------
(* QwenLlm._parse_qwen_response and the non-streaming branch *)

\* the text of a Part: the characters of a str, one symbol for None
PartText(v) == IF v.t = "str" THEN v.s ELSE <<"<None>">>

\* the text extraction of _parse_qwen_response, for a dict: the text, or
\* raised = TRUE when a .get is called on something that has none
ParsedText(response_data) ==
    IF HasKey(response_data, "output")
    THEN IF Item(response_data, "output").t # "dict" THEN [raised |-> TRUE, text |-> StrV(<<>>)]
         ELSE [raised |-> FALSE, text |-> Get(Item(response_data, "output"), "text", StrV(<<>>))]
    ELSE IF HasKey(response_data, "choices") /\ Truthy(Item(response_data, "choices"))
    THEN LET choices == Item(response_data, "choices")
             first == IF choices.t = "list" THEN choices.m[1].v ELSE NoneV
             message == IF first.t = "dict" THEN Get(first, "message", DictV(<<>>)) ELSE NoneV
         IN IF message.t # "dict" THEN [raised |-> TRUE, text |-> StrV(<<>>)]
            ELSE [raised |-> FALSE, text |-> Get(message, "content", StrV(<<>>))]
    ELSE [raised |-> FALSE, text |-> StrV(<<>>)]

\* GenerateContentResponseUsageMetadata(prompt_token_count =
\* usage.get("input_tokens", 0), total_token_count = usage.get(
\* "total_tokens", 0)): built whether or not usage is empty
ParsedUsage(usage) ==
    IF usage.t # "dict" THEN [raised |-> TRUE, usage |-> <<>>]
    ELSE LET prompt == Get(usage, "input_tokens", IntV(0))
             total == Get(usage, "total_tokens", IntV(0))
         IN IF prompt.t \notin {"int", "None"} \/ total.t \notin {"int", "None"}
            THEN [raised |-> TRUE, usage |-> <<>>]
            ELSE [raised |-> FALSE, usage |-> <<CountOf(prompt), CountOf(total)>>]

\* QwenLlm._parse_qwen_response(response_data), for a dict: the
\* LlmResponse returned, or raised = TRUE when the except block raises too
ParseQwenResponse(response_data) ==
    LET x == ParsedText(response_data)
        usage == Get(response_data, "usage", DictV(<<>>))
        finish_reason_str == Get(response_data, "finish_reason", StrV(W_stop))
        u == ParsedUsage(usage)
        failed == x.raised \/ u.raised
    IN IF (Truthy(finish_reason_str) /\ finish_reason_str.t # "str") \/ x.text.t \notin {"str", "None"}
       THEN [raised |-> TRUE, response |-> FinalResponse("None", <<>>)]
       ELSE [raised |-> FALSE,
             response |-> [content |-> <<PartText(x.text)>>,
                           finish_reason |-> QwenMapFinishReason(finish_reason_str),
                           usage_metadata |-> IF failed THEN <<>> ELSE u.usage]]

-----------------------------------------------------------------------------
(* Generations over the vendor's less common units *)

MaxPlainUnits == 1

\* a unit cut short: {"output": {"text": "a"} with the last brace missing
TruncatedUnit == <<"{", "output", "{", "text", QUOTE, "a", QUOTE, "}">>

\* valid JSON that is not an object
NumberUnit == <<"1">>

\* {"output": null}
NullOutputUnit == <<"{", "output", "null", "}">>

\* {"choices": [{"delta": null}]}
NullDeltaUnit == <<"{", "choices", "[", "{", "delta", "null", "}", "]", "}">>

\* {"output": {"text": "a", "finish_reason": "stop"}, "usage":
\* {"input_tokens": 1, "total_tokens": 3}}
UsageUnit ==
    <<"{", "output", "{", "text">> \o JsonQuote(<<"a">>) \o <<",", "finish_reason">> \o JsonQuote(W_stop)
    \o <<"}", ",", "usage", "{", "input_tokens", "1", ",", "total_tokens", "3", "}", "}">>

\* {"choices": [{"message": {"content": "a"}, "finish_reason": "length"}]}
MessageUnit ==
    <<"{", "choices", "[", "{", "message", "{", "content">> \o JsonQuote(<<"a">>)
    \o <<"}", ",", "finish_reason">> \o JsonQuote(W_length) \o <<"}", "]", "}">>

\* {"output": {"text": "a"}, "finish_reason": "length"}: the reason beside
\* the output and not inside it
TopReasonUnit ==
    <<"{", "output", "{", "text">> \o JsonQuote(<<"a">>) \o <<"}", ",", "finish_reason">> \o JsonQuote(W_length) \o <<"}">>

\* the plain unit: the text a, no reason
PlainUnit == OutputUnit(<<"a">>, <<>>)

\* the less common units: a truncated one, three of an unexpected shape,
\* two whose text the sanitizer empties, one with usage, one whose text
\* goes on after the plain unit's with a space
OddUnits ==
    { TruncatedUnit, NumberUnit, NullOutputUnit, NullDeltaUnit,
      OutputUnit(<<" ">>, <<>>), OutputUnit(<<FENCE, JSON_TAG>>, <<>>), UsageUnit,
      OutputUnit(<<"a", " ", "b">>, <<>>) }

\* n copies of the piece, one after the other
RECURSIVE Repeated(_, _)
Repeated(piece, n) == IF n = 0 THEN <<>> ELSE piece \o Repeated(piece, n - 1)

\* one piece of odd among plain pieces, at most MaxPlainUnits of them
OddStreamsOf(plain, odd) ==
    {Repeated(plain, k) \o o \o Repeated(plain, j) : <<k, j, o>> \in
        {x \in (0..MaxPlainUnits) \X (0..MaxPlainUnits) \X odd : x[1] + x[2] <= MaxPlainUnits}}

OddSseStreams == OddStreamsOf(SseLine(PlainUnit), {SseLine(u) : u \in OddUnits})

OddJsonStreams == OddStreamsOf(PlainUnit, OddUnits)

\* the bodies of non-streaming responses
NonStreamBodies ==
    { OutputUnit(<<"a">>, <<>>), OutputUnit(<<"a">>, W_length), OutputUnit(<<"a">>, W_stop),
      MessageUnit, TopReasonUnit, UsageUnit, BookkeepingUnit }

OddInit ==
    /\ path \in {"sse", "json", "nonstream"}
    /\ wire \in (CASE path = "sse" -> OddSseStreams [] path = "json" -> OddJsonStreams [] OTHER -> NonStreamBodies)
    /\ buffer = StartLocals.buffer
    /\ accumulated_text = StartLocals.accumulated_text
    /\ emitted = StartLocals.emitted
    /\ loaded = StartLocals.loaded
    /\ lastLoad = StartLocals.lastLoad
    /\ doneSeen = StartLocals.doneSeen
    /\ status = "reading"
    /\ sent = <<>>
    /\ nreads = "none"
    /\ mapLog = <<>>
    /\ event_id = 0
    /\ conns = <<>>
    /\ SessionIdle
    /\ CleanIdle

\* generate_content_async with stream = False: data = await
\* response.json(), then the one LlmResponse of _parse_qwen_response
NonStreamResponse ==
    /\ path = "nonstream" /\ status = "reading"
    /\ LET r == JsonLoads(Decode(wire))
           p == ParseQwenResponse(r.val)
       IN /\ loaded' = IF r.ok THEN <<r.val>> ELSE <<>>
          /\ lastLoad' = IF r.ok THEN "loaded" ELSE "JSONDecodeError"
          /\ emitted' = IF r.ok /\ r.val.t = "dict" /\ ~p.raised THEN <<p.response>> ELSE <<>>
          /\ status' = IF r.ok /\ r.val.t = "dict" /\ ~p.raised THEN "ended" ELSE "raised"
    /\ sent' = wire
    /\ wire' = <<>>
    /\ nreads' = "one"
    /\ UNCHANGED <<path, buffer, accumulated_text, doneSeen>>
    /\ UNCHANGED <<mapVars, framerVars, sessionVars, cleanVars>>

OddNext == SseRead \/ JsonRead \/ EndOfStream \/ NonStreamResponse

\* one generation of QwenLlm, streaming or not, over the less common units
OddSpec == OddInit /\ [][OddNext]_vars

-----------------------------------------------------------------------------
(* The vendor session of QwenLlm over concurrent generate_content_async  *)
(* calls on one instance.  The request is taken to be well formed, so    *)
(* that building the payload does not raise.  A call suspends while the  *)
(* post is awaited, at each yield, and inside close while                *)
(* session.close() is awaited.                                           *)

MaxGens == 2
MaxYields == 1

\* a call whose generator has not run yet
NewGeneration == [pc |-> "start", using |-> 0, nyields |-> 0, exit |-> "none"]

\* aiohttp.ClientSession(...): a session that is open
NewSession == [closed |-> FALSE, closes |-> 0]

\* generate_content_async is called; the body runs at the first
\* iteration
Call ==
    /\ Len(gens) < MaxGens
    /\ gens' = Append(gens, NewGeneration)
    /\ UNCHANGED <<session, sessions, qwenVars, mapVars, framerVars, cleanVars>>

\* await self._ensure_session(), which holds no suspension point, then
\* self._session.post(...) on the session the instance holds now
EnsureSessionAndPost(g) ==
    /\ gens[g].pc = "start"
    /\ IF session = 0 \/ sessions[session].closed
       THEN /\ sessions' = Append(sessions, NewSession)
            /\ session' = Len(sessions) + 1
       ELSE UNCHANGED <<session, sessions>>
    /\ gens' = [gens EXCEPT ![g].pc = "posting", ![g].using = session']
    /\ UNCHANGED <<qwenVars, mapVars, framerVars, cleanVars>>

\* the gen g goes to pc, leaving for the reason exit
Leave(g, pc, exit) ==
    /\ gens' = [gens EXCEPT ![g].pc = pc, ![g].exit = exit]
    /\ UNCHANGED <<session, sessions, qwenVars, mapVars, framerVars, cleanVars>>

\* the vendor answers 2xx: raise_for_status passes
ResponseOk(g) ==
    /\ gens[g].pc = "posting"
    /\ Leave(g, "reading", "none")

\* the vendor answers non-2xx, or the post fails: the exception goes
\* through except and raise to finally
ResponseFails(g) ==
    /\ gens[g].pc = "posting"
    /\ Leave(g, "finally", "status")

\* yield llm_response / yield response_item: the generator is suspended
\* until the consumer asks for the next item
YieldItem(g) ==
    /\ gens[g].pc = "reading" /\ gens[g].nyields < MaxYields
    /\ gens' = [gens EXCEPT ![g].pc = "yielded", ![g].nyields = @ + 1]
    /\ UNCHANGED <<session, sessions, qwenVars, mapVars, framerVars, cleanVars>>

\* the consumer asks for the next item
Resume(g) ==
    /\ gens[g].pc = "yielded"
    /\ Leave(g, "reading", "none")

\* a mutant of ConsumerCloses: the generator is dropped at the yield and
\* its finally block never runs
ConsumerClosesNoFinally(g) ==
    /\ gens[g].pc = "yielded"
    /\ Leave(g, "done", "closed")

\* the consumer closes the generator at the yield (aclose after a
\* disconnect): GeneratorExit passes except Exception and reaches finally
ConsumerCloses(g) ==
    /\ gens[g].pc = "yielded"
    /\ Leave(g, "finally", "closed")

\* the response is used up: the async with block is left normally
StreamEnds(g) ==
    /\ gens[g].pc = "reading"
    /\ Leave(g, "finally", "end")

\* reading or processing the response raises
StreamRaises(g) ==
    /\ gens[g].pc = "reading"
    /\ Leave(g, "finally", "exception")

\* finally: await self.close(), up to the await of session.close(); the
\* session the instance holds now is the one closed
CloseSession(g) ==
    /\ gens[g].pc = "finally"
    /\ IF session # 0 /\ ~sessions[session].closed
       THEN /\ sessions' = [sessions EXCEPT ![session].closed = TRUE, ![session].closes = @ + 1]
            /\ gens' = [gens EXCEPT ![g].pc = "closing"]
       ELSE /\ gens' = [gens EXCEPT ![g].pc = "done"]
            /\ UNCHANGED sessions
    /\ UNCHANGED <<session, qwenVars, mapVars, framerVars, cleanVars>>

\* close after the await: self._session = None
ForgetSession(g) ==
    /\ gens[g].pc = "closing"
    /\ session' = 0
    /\ gens' = [gens EXCEPT ![g].pc = "done"]
    /\ UNCHANGED <<sessions, qwenVars, mapVars, framerVars, cleanVars>>

SessionInit == QwenIdle /\ mapLog = <<>> /\ event_id = 0 /\ conns = <<>> /\ SessionIdle /\ CleanIdle

SessionNext ==
    \/ Call
    \/ \E g \in 1..Len(gens) : EnsureSessionAndPost(g)
    \/ \E g \in 1..Len(gens) : ResponseOk(g)
    \/ \E g \in 1..Len(gens) : ResponseFails(g)
    \/ \E g \in 1..Len(gens) : YieldItem(g)
    \/ \E g \in 1..Len(gens) : Resume(g)
    \/ \E g \in 1..Len(gens) : ConsumerCloses(g)
    \/ \E g \in 1..Len(gens) : StreamEnds(g)
    \/ \E g \in 1..Len(gens) : StreamRaises(g)
    \/ \E g \in 1..Len(gens) : CloseSession(g)
    \/ \E g \in 1..Len(gens) : ForgetSession(g)

\* the calls on one QwenLlm instance, interleaved at their suspension
\* points
SessionSpec == SessionInit /\ [][SessionNext]_vars

-----------------------------------------------------------------------------
(* _clean_markdown_json on its own *)

MaxTextLen == 5
MaxCleans == 2

\* the characters the texts are made of: a letter, a space, a line feed,
\* the fence and its tag in both cases
CleanAlphabet == {"a", " ", LF, FENCE, JSON_TAG, JSON_TAG_UPPER}

\* every text of at most MaxTextLen characters
CleanTexts == UNION {[1..n -> CleanAlphabet] : n \in 0..MaxTextLen}

CleanInit ==
    /\ clean_in \in CleanTexts
    /\ clean_out = <<>>
    /\ QwenIdle /\ mapLog = <<>> /\ event_id = 0 /\ conns = <<>> /\ SessionIdle

\* self._clean_markdown_json(text): on the text first, then on its own
\* result
CleanCall ==
    /\ Len(clean_out) < MaxCleans
    /\ clean_out' = Append(clean_out, CleanMarkdownJson(IF clean_out = <<>> THEN clean_in ELSE clean_out[Len(clean_out)]))
    /\ UNCHANGED <<clean_in, qwenVars, mapVars, framerVars, sessionVars>>

CleanNext == CleanCall

\* the sanitizer called on any text
CleanSpec == CleanInit /\ [][CleanNext]_vars

-----------------------------------------------------------------------------
(* The message adapters: _convert_to_qwen_messages, _convert_to_openai_messages *)

\* An LlmRequest is [config, contents]: config is <<>> for None and
\* <<system_instruction>> for a config; contents is the list of turns
\* [role, parts], a part being [text], the text None or a str.

\* the role test is content.role == "user": the upper case spelling is lost
ConvertToQwenMessagesUserOnly(request) ==
    LET RECURSIVE text_parts(_)
        text_parts(parts) ==
            IF parts = <<>> THEN <<>>
            ELSE (IF Truthy(Head(parts).text) THEN <<Head(parts).text.s>> ELSE <<>>) \o text_parts(Tail(parts))
        RECURSIVE turns(_)
        turns(contents) ==
            IF contents = <<>> THEN <<>>
            ELSE LET content == Head(contents)
                     role == IF content.role = "user" THEN "user" ELSE "assistant"
                 IN (IF text_parts(content.parts) # <<>>
                     THEN <<[role |-> role, content |-> StrV(JoinLines(text_parts(content.parts)))]>>
                     ELSE <<>>) \o turns(Tail(contents))
    IN (IF request.config # <<>> /\ Truthy(request.config[1])
        THEN <<[role |-> "system", content |-> request.config[1]]>>
        ELSE <<>>) \o turns(request.contents)

\* QwenLlm._convert_to_qwen_messages(request)
ConvertToQwenMessages(request) ==
    LET RECURSIVE text_parts(_)
        text_parts(parts) ==
            IF parts = <<>> THEN <<>>
            ELSE (IF Truthy(Head(parts).text) THEN <<Head(parts).text.s>> ELSE <<>>) \o text_parts(Tail(parts))
        RECURSIVE turns(_)
        turns(contents) ==
            IF contents = <<>> THEN <<>>
            ELSE LET content == Head(contents)
                     role == IF content.role \in {"user", "USER"} THEN "user" ELSE "assistant"
                 IN (IF text_parts(content.parts) # <<>>
                     THEN <<[role |-> role, content |-> StrV(JoinLines(text_parts(content.parts)))]>>
                     ELSE <<>>) \o turns(Tail(contents))
    IN (IF request.config # <<>> /\ Truthy(request.config[1])
        THEN <<[role |-> "system", content |-> request.config[1]]>>
        ELSE <<>>) \o turns(request.contents)

\* OpenAILlm._convert_to_openai_messages(request)
ConvertToOpenaiMessages(request) ==
    LET RECURSIVE text_parts(_)
        text_parts(parts) ==
            IF parts = <<>> THEN <<>>
            ELSE (IF Truthy(Head(parts).text) THEN <<Head(parts).text.s>> ELSE <<>>) \o text_parts(Tail(parts))
        RECURSIVE turns(_)
        turns(contents) ==
            IF contents = <<>> THEN <<>>
            ELSE LET content == Head(contents)
                     role == IF content.role \in {"user", "USER"} THEN "user" ELSE "assistant"
                 IN (IF text_parts(content.parts) # <<>>
                     THEN <<[role |-> role, content |-> StrV(JoinLines(text_parts(content.parts)))]>>
                     ELSE <<>>) \o turns(Tail(contents))
    IN (IF request.config # <<>> /\ Truthy(request.config[1])
        THEN <<[role |-> "system", content |-> request.config[1]]>>
        ELSE <<>>) \o turns(request.contents)

MaxTurns == 2
MaxConversions == 1

\* a turn of the conversation
Turn(role, texts) == [role |-> role, parts |-> [i \in 1..Len(texts) |-> [text |-> texts[i]]]]

\* the turns the conversations are made of: both spellings of user, a
\* capitalised User, a turn with no text and a model turn whose parts are
\* empty, textless and filled
SampleTurns ==
    { Turn("user", <<StrV(<<"a">>)>>),
      Turn("USER", <<StrV(<<"a">>), StrV(<<"b">>)>>),
      Turn("User", <<StrV(<<"a">>)>>),
      Turn("user", <<NoneV, StrV(<<>>)>>),
      Turn("model", <<StrV(<<>>), StrV(<<"b">>), NoneV, StrV(<<"a">>)>>) }

\* no config, and a config whose system instruction is None, empty or set
SampleConfigs == {<<>>, <<NoneV>>, <<StrV(<<>>)>>, <<StrV(<<"s">>)>>}

\* the requests handed to the adapters
SampleRequests ==
    [config : SampleConfigs, contents : UNION {[1..n -> SampleTurns] : n \in 0..MaxTurns}]

\* a call of QwenLlm._convert_to_qwen_messages
QwenConvertCall ==
    /\ Len(mapLog) < MaxConversions
    /\ \E request \in SampleRequests :
          mapLog' = Append(mapLog, [adapter |-> "qwen", arg |-> request, result |-> ConvertToQwenMessages(request)])
    /\ UNCHANGED <<qwenVars, framerVars, sessionVars, cleanVars>>

\* a call of OpenAILlm._convert_to_openai_messages
OpenAIConvertCall ==
    /\ Len(mapLog) < MaxConversions
    /\ \E request \in SampleRequests :
          mapLog' = Append(mapLog, [adapter |-> "openai", arg |-> request, result |-> ConvertToOpenaiMessages(request)])
    /\ UNCHANGED <<qwenVars, framerVars, sessionVars, cleanVars>>

AdapterInit == QwenIdle /\ mapLog = <<>> /\ event_id = 0 /\ conns = <<>> /\ SessionIdle /\ CleanIdle

AdapterNext == QwenConvertCall \/ OpenAIConvertCall

\* the message adapters of both clients, called on any request
AdapterSpec == AdapterInit /\ [][AdapterNext]_vars

-----------------------------------------------------------------------------
(* The Qwen stream processors on a character of two bytes *)

\* {"output": {"text": "a(e acute)"}}, the character as its two UTF-8 bytes
EAcuteUnit == OutputUnit(<<"a", UTF8_LEAD, UTF8_CONT>>, <<>>)

Utf8SseStreams == OddStreamsOf(SseLine(PlainUnit), {SseLine(EAcuteUnit)})

Utf8JsonStreams == OddStreamsOf(PlainUnit, {EAcuteUnit})

Utf8Init ==
    /\ path \in {"sse", "json"}
    /\ wire \in (IF path = "sse" THEN Utf8SseStreams ELSE Utf8JsonStreams)
    /\ buffer = StartLocals.buffer
    /\ accumulated_text = StartLocals.accumulated_text
    /\ emitted = StartLocals.emitted
    /\ loaded = StartLocals.loaded
    /\ lastLoad = StartLocals.lastLoad
    /\ doneSeen = StartLocals.doneSeen
    /\ status = "reading"
    /\ sent = <<>>
    /\ nreads = "none"
    /\ mapLog = <<>>
    /\ event_id = 0
    /\ conns = <<>>
    /\ SessionIdle
    /\ CleanIdle

Utf8Next == SseRead \/ JsonRead \/ EndOfStream

\* one streaming generation of QwenLlm over units with a character of two
\* bytes, the bytes cut into reads in every way
Utf8Spec == Utf8Init /\ [][Utf8Next]_vars

-----------------------------------------------------------------------------
(* openai_client.py: the streaming generation of OpenAILlm *)

\* A ChatCompletionChunk is [choices], a choice [delta, finish_reason], a
\* delta [content]; content and finish_reason are None or a str. In this
\* specification wire holds the chunks the vendor has still to send and
\* sent the chunks the async for has gone over.

MaxChunks == 2

\* OpenAILlm._parse_openai_chunk(chunk)
ParseOpenaiChunk(chunk) ==
    IF chunk.choices = <<>> THEN [content |-> <<>>, finish_reason |-> "None", usage_metadata |-> <<>>]
    ELSE LET choice == chunk.choices[1]
             delta == choice.delta
             text_content == IF Truthy(delta.content) THEN delta.content.s ELSE <<>>
             finish_reason == choice.finish_reason
         IN IF text_content # <<>>
            THEN [content |-> <<text_content>>, finish_reason |-> "None", usage_metadata |-> <<>>]
            ELSE IF Truthy(finish_reason)
            THEN [content |-> <<>>, finish_reason |-> OpenAIMapFinishReason(finish_reason), usage_metadata |-> <<>>]
            ELSE [content |-> <<>>, finish_reason |-> "None", usage_metadata |-> <<>>]

\* a chunk of one choice
ChoiceChunk(content, finish_reason) ==
    [choices |-> <<[delta |-> [content |-> content], finish_reason |-> finish_reason]>>]

\* the chunks the vendor sends: one without choices, and every pairing of
\* a content that is None, empty or a text with a finish_reason that is
\* None, stop or length
SampleChunks ==
    {[choices |-> <<>>]}
    \cup {ChoiceChunk(content, finish_reason) :
            content \in {NoneV, StrV(<<>>), StrV(<<"a">>), StrV(<<"b">>)},
            finish_reason \in {NoneV, StrV(W_stop), StrV(W_length)}}

\* stream_response = await self._client.chat.completions.create(...)
OpenAIInit ==
    /\ path = "openai"
    /\ wire \in UNION {[1..n -> SampleChunks] : n \in 0..MaxChunks}
    /\ buffer = <<>> /\ accumulated_text = <<>> /\ emitted = <<>>
    /\ status = "reading" /\ loaded = <<>> /\ lastLoad = "none"
    /\ doneSeen = FALSE /\ sent = <<>> /\ nreads = "none"
    /\ mapLog = <<>> /\ event_id = 0 /\ conns = <<>> /\ SessionIdle /\ CleanIdle

\* one turn of the async for: yield self._parse_openai_chunk(chunk)
OpenAIChunk ==
    /\ path = "openai" /\ status = "reading" /\ wire # <<>>
    /\ emitted' = Append(emitted, ParseOpenaiChunk(Head(wire)))
    /\ sent' = Append(sent, Head(wire))
    /\ wire' = Tail(wire)
    /\ UNCHANGED <<path, buffer, accumulated_text, status, loaded, lastLoad, doneSeen, nreads>>
    /\ UNCHANGED <<mapVars, framerVars, sessionVars, cleanVars>>

\* the stream is over: yield LlmResponse(content=None, finish_reason=STOP)
OpenAIStreamEnds ==
    /\ path = "openai" /\ status = "reading" /\ wire = <<>>
    /\ emitted' = Append(emitted, [content |-> <<>>, finish_reason |-> "STOP", usage_metadata |-> <<>>])
    /\ status' = "ended"
    /\ UNCHANGED <<path, wire, buffer, accumulated_text, loaded, lastLoad, doneSeen, sent, nreads>>
    /\ UNCHANGED <<mapVars, framerVars, sessionVars, cleanVars>>

OpenAINext == OpenAIChunk \/ OpenAIStreamEnds

\* one streaming generation of OpenAILlm over any chunks
OpenAISpec == OpenAIInit /\ [][OpenAINext]_vars

-----------------------------------------------------------------------------
(* Properties of the two stream processors *)

\* a complete event: a completion reason and no content
IsComplete(e) == e.finish_reason # "None" /\ e.content = <<>>

\* a text-delta event: content and no completion reason
IsTextDelta(e) == e.content # <<>> /\ e.finish_reason = "None"

\* the texts of the text-delta events among es, in order
RECURSIVE DeltaTexts(_)
DeltaTexts(es) == IF es = <<>> THEN <<>>
                  ELSE IF IsTextDelta(Head(es)) THEN <<Head(es).content[1]>> \o DeltaTexts(Tail(es))
                  ELSE DeltaTexts(Tail(es))

\* the texts of ts that are not empty, in order
RECURSIVE NonEmpty(_)
NonEmpty(ts) == IF ts = <<>> THEN <<>>
                ELSE IF Head(ts) = <<>> THEN NonEmpty(Tail(ts))
                ELSE <<Head(ts)>> \o NonEmpty(Tail(ts))

\* the unit read as the vendor shapes define it: the member of the
\* "output" object, or of the first choice's "message" or "delta" object
\* (for "finish_reason": of the first choice), NoneV when there is none
ShapeMember(v, key) ==
    IF v.t # "dict" THEN NoneV
    ELSE IF HasKey(v, "output")
         THEN IF Item(v, "output").t = "dict" THEN Get(Item(v, "output"), key, NoneV) ELSE NoneV
    ELSE IF HasKey(v, "choices") /\ Item(v, "choices").t = "list" /\ Item(v, "choices").m # <<>>
         THEN LET choice == Item(v, "choices").m[1].v
                  inner == IF choice.t # "dict" THEN NoneV
                           ELSE IF HasKey(choice, "message") THEN Item(choice, "message")
                           ELSE IF HasKey(choice, "delta") THEN Item(choice, "delta")
                           ELSE NoneV
              IN IF key = "finish_reason"
                 THEN (IF choice.t = "dict" /\ inner.t = "dict" THEN Get(choice, key, NoneV) ELSE NoneV)
                 ELSE (IF inner.t = "dict" THEN Get(inner, "content", NoneV) ELSE NoneV)
    ELSE NoneV

\* the unit's current text: its characters, <<>> when it carries none
UnitText(v) == IF ShapeMember(v, "text").t = "str" THEN ShapeMember(v, "text").s ELSE <<>>

\* the unit's completion reason: its characters, <<>> when it carries none
UnitReason(v) == IF ShapeMember(v, "finish_reason").t = "str" THEN ShapeMember(v, "finish_reason").s ELSE <<>>

\* a Shape A unit: an object with an "output" object
IsShapeA(v) == v.t = "dict" /\ HasKey(v, "output") /\ Item(v, "output").t = "dict"

\* the last value json.loads returned
LastLoaded == loaded[Len(loaded)]

\* this step decoded exactly one unit
OneUnitStep == Len(loaded') = Len(loaded) + 1

\* the bytes this step read from the transport
ChunkRead == DropFirst(sent', Len(sent))

(* C1: during one generation at most one complete event is emitted, and no
   event of any kind is emitted after it: a complete event can only be the
   last of the events emitted. *)
C1_CompleteIsLast ==
    \A i \in 1..Len(emitted) : IsComplete(emitted[i]) => i = Len(emitted)

(* C2: in the SSE path, when every unit decoded so far is a Shape A unit
   whose text extends the text of the unit before it, the emitted text
   deltas concatenate to the last text; for two units with texts T1, T2 the
   deltas are T1 and T2 without its T1 prefix (an empty fragment is not an
   event). *)
C2_CumulativeDeltas ==
    (/\ path = "sse" /\ loaded # <<>>
     /\ \A i \in 1..Len(loaded) : IsShapeA(loaded[i])
     /\ \A i \in 2..Len(loaded) : StartsWith(UnitText(loaded[i]), UnitText(loaded[i - 1])))
    => /\ Flatten(DeltaTexts(emitted)) = UnitText(LastLoaded)
       /\ Len(loaded) = 2 =>
            DeltaTexts(emitted) = NonEmpty(<<UnitText(loaded[1]),
                                             DropFirst(UnitText(loaded[2]), Len(UnitText(loaded[1])))>>)

\* two cumulative units were decoded, the second longer than the first
C2_Witness ==
    /\ path = "sse" /\ Len(loaded) = 2 /\ status = "ended"
    /\ IsShapeA(loaded[1]) /\ IsShapeA(loaded[2])
    /\ UnitText(loaded[1]) = <<"a">> /\ UnitText(loaded[2]) = <<"a", "b">>
    /\ DeltaTexts(emitted) = << <<"a">>, <<"b">> >>

(* C3: in both paths, when a unit's non-empty text does not start with the
   accumulated text, the whole text is emitted as one text delta and is
   appended to the accumulated text. *)
C3_FreshDeltaAppended ==
    [][(/\ OneUnitStep
        /\ UnitText(loaded'[Len(loaded')]) # <<>>
        /\ ~StartsWith(UnitText(loaded'[Len(loaded')]), accumulated_text))
       => (/\ accumulated_text' = accumulated_text \o UnitText(loaded'[Len(loaded')])
           /\ DeltaTexts(emitted') = Append(DeltaTexts(emitted), UnitText(loaded'[Len(loaded')])))]_vars

(* C4: in both paths, a decoded unit that carries neither text nor a
   completion reason emits no event and leaves the accumulated text as it
   was, whatever was processed before it. *)
C4_EmptyUnitNoOp ==
    [][(/\ OneUnitStep
        /\ loaded'[Len(loaded')].t = "dict"
        /\ UnitText(loaded'[Len(loaded')]) = <<>>
        /\ UnitReason(loaded'[Len(loaded')]) = <<>>)
       => (emitted' = emitted /\ accumulated_text' = accumulated_text)]_vars

\* two units that carry nothing were processed in a row after a text
C4_Witness ==
    /\ Len(loaded) = 2 /\ accumulated_text # <<>> /\ Len(emitted) = 1
    /\ ~HasKey(loaded[2], "output") /\ ~HasKey(loaded[2], "choices")
    /\ UnitText(loaded[2]) = <<>> /\ UnitReason(loaded[2]) = <<>>
(* C7: in the SSE path, once a line data: [DONE] has been read the stream
   is over: no later line, of the same read or of a later one, is decoded
   and no further event is emitted. *)
C7_DoneTerminates ==
    [][doneSeen => (loaded' = loaded /\ emitted' = emitted)]_vars

(* C8: in the JSON framing, a read whose span from the first { to the last }
   fails to parse leaves the buffer holding everything it held plus the
   bytes just read. *)
C8_FailedParseKeepsBuffer ==
    [][(path = "json" /\ lastLoad' = "JSONDecodeError")
       => buffer' = buffer \o Decode(ChunkRead)]_vars

(* C9: in the JSON framing, one valid JSON object delivered over two or more
   reads, cut anywhere, is decoded exactly once (and as itself) by the time
   its last byte has been read. *)
C9_SplitObjectDecodedOnce ==
    (/\ path = "json" /\ wire = <<>> /\ nreads = "several"
     /\ JsonLoads(Decode(sent)).ok)
    => loaded = <<JsonLoads(Decode(sent)).val>>

\* nothing but white space follows a [DONE] in the stream
NothingFollowsDone(stream) ==
    \A i \in 1..Len(stream) : stream[i] = DONE => \A j \in (i + 1)..Len(stream) : stream[j] \in Whitespace

(* C10: in the SSE framing, for a stream in which nothing follows a
   data: [DONE] line, the events emitted after any prefix of the stream has
   been read, in whatever reads, are the events of reading that prefix in
   one read. *)
C10_FragmentationIndependent ==
    (path = "sse" /\ NothingFollowsDone(sent \o wire))
    => /\ emitted = SseChunk(StartLocals, sent).emitted
       /\ (status = "raised") = SseChunk(StartLocals, sent).raised

\* the scenario a, ab, ab+stop, [DONE], read in several reads to its end
C10_Witness ==
    /\ path = "sse" /\ status = "ended" /\ nreads = "several"
    /\ sent = ScenarioStream
    /\ Len(emitted) = 3
    /\ DeltaTexts(emitted) = << <<"a">>, <<"b">> >>
    /\ IsComplete(emitted[3]) /\ emitted[3].finish_reason = "STOP"

-----------------------------------------------------------------------------
(* Properties of the finish reason mappers *)

\* s is the word w (in lower case) up to the case of its letters
FoldsTo(s, w) ==
    /\ Len(s) = Len(w)
    /\ \A i \in 1..Len(s) : s[i] = w[i] \/ \E k \in 1..Len(Uppers) : Uppers[k] = s[i] /\ Lowers[k] = w[i]

\* a and b differ at most in the case of their letters
SameUpToCase(a, b) ==
    /\ Len(a) = Len(b)
    /\ \A i \in 1..Len(a) :
          \/ a[i] = b[i]
          \/ \E k \in 1..Len(Uppers) : {a[i], b[i]} = {Uppers[k], Lowers[k]}

\* the outcome the mapping table gives a reason
ExpectedReason(arg) ==
    IF arg.t = "None" \/ arg.s = <<>> THEN "None"
    ELSE IF FoldsTo(arg.s, W_length) THEN "MAX_TOKENS"
    ELSE IF FoldsTo(arg.s, W_content_filter) THEN "SAFETY"
    ELSE "STOP"

(* C5: _map_finish_reason of either adapter maps a missing or empty reason
   to None, length to MAX_TOKENS, content_filter to SAFETY and every other
   non-empty string (stop, function_call, tool_calls, unknown words) to
   STOP, whatever the case of the letters; two reasons that differ only in
   case map to the same outcome. *)
C5_MapFinishReason ==
    /\ \A i \in 1..Len(mapLog) : mapLog[i].result = ExpectedReason(mapLog[i].arg)
    /\ \A i, j \in 1..Len(mapLog) :
          (mapLog[i].arg.t = "str" /\ mapLog[j].arg.t = "str" /\ SameUpToCase(mapLog[i].arg.s, mapLog[j].arg.s))
          => mapLog[i].result = mapLog[j].result

\* LENGTH through one adapter and length through the other
C5_Witness ==
    /\ Len(mapLog) = 2
    /\ mapLog[1].adapter = "qwen" /\ mapLog[2].adapter = "openai"
    /\ mapLog[1].arg = StrV(Upper(W_length)) /\ mapLog[2].arg = StrV(W_length)
    /\ mapLog[1].result = "MAX_TOKENS" /\ mapLog[2].result = "MAX_TOKENS"

-----------------------------------------------------------------------------
(* Properties of the SSE framer *)

(* C6: the frame identifiers written on any one connection are 1, 2, 3, ...:
   the k-th frame of every connection has id k, also when several
   connections are served one after another or interleaved. *)
C6_IdsCountFromOnePerConnection ==
    \A c \in 1..Len(conns) : \A k \in 1..Len(conns[c].frames) : conns[c].frames[k].id = k
-----------------------------------------------------------------------------
(* Properties of the processors on the less common units *)

\* the stream without its complete lines whose data: payload is not JSON
RECURSIVE WithoutMalformedLines(_)
WithoutMalformedLines(stream) ==
    LET i == Find(stream, LF)
        line == Strip(SubSeq(stream, 1, i - 1))
        malformed == line # <<>> /\ line[1] = DATA_PREFIX /\ Tail(line) # <<DONE>> /\ ~JsonLoads(Tail(line)).ok
    IN IF i = 0 THEN stream
       ELSE (IF malformed THEN <<>> ELSE SubSeq(stream, 1, i)) \o WithoutMalformedLines(DropFirst(stream, i))

(* C11: in the SSE path a data: line whose payload is not valid JSON emits
   no event, leaves the accumulated text unchanged and does not end the
   stream: at every point the events, the accumulated text and whether an
   exception left the generator are those of the same bytes with the
   malformed lines taken out. *)
C11_MalformedLineSkipped ==
    path = "sse" =>
        LET ref == SseChunk(StartLocals, WithoutMalformedLines(Decode(sent)))
        IN /\ emitted = ref.emitted
           /\ accumulated_text = ref.accumulated_text
           /\ (status = "raised") = ref.raised

\* a malformed line, then a plain line read in a later read and processed
C11_Witness ==
    /\ path = "sse" /\ status = "ended" /\ nreads = "several"
    /\ sent = SseLine(TruncatedUnit) \o SseLine(PlainUnit)
    /\ WithoutMalformedLines(Decode(sent)) = <<LF>> \o SseLine(PlainUnit)
    /\ emitted = <<TextResponse(<<"a">>)>>
    /\ accumulated_text = <<"a">>

\* a decoded value of an unexpected shape: not an object, an object whose
\* "output" is not an object, or one whose first choice has a "message"
\* or "delta" that is not an object
IsUnexpectedShape(v) ==
    \/ v.t # "dict"
    \/ HasKey(v, "output") /\ Item(v, "output").t # "dict"
    \/ /\ ~HasKey(v, "output") /\ HasKey(v, "choices")
       /\ Item(v, "choices").t = "list" /\ Item(v, "choices").m # <<>>
       /\ LET choice == Item(v, "choices").m[1].v
          IN \/ choice.t # "dict"
             \/ HasKey(choice, "message") /\ Item(choice, "message").t # "dict"
             \/ ~HasKey(choice, "message") /\ HasKey(choice, "delta") /\ Item(choice, "delta").t # "dict"

(* C12: in both streaming paths a valid JSON unit of an unexpected shape
   never aborts the stream: the step that decodes it raises no exception
   to the caller and emits no event. *)
C12_UnexpectedShapeSkipped ==
    [][(OneUnitStep /\ IsUnexpectedShape(loaded'[Len(loaded')]))
       => (status' # "raised" /\ emitted' = emitted)]_vars

(* C15: every text-delta event emitted by either streaming path carries a
   non-empty text fragment; a fragment the sanitizer empties produces no
   text-delta event. *)
C15_DeltasNonEmpty ==
    path \in {"sse", "json"} =>
        \A i \in 1..Len(emitted) : IsTextDelta(emitted[i]) => emitted[i].content[1] # <<>>

\* the usage counts a unit carries: input tokens, total tokens
UnitUsage(v) ==
    <<CountOf(Get(Item(v, "usage"), "input_tokens", IntV(0))),
      CountOf(Get(Item(v, "usage"), "total_tokens", IntV(0)))>>

(* C16: in both streaming paths, when a unit carries a completion reason
   and a "usage" object, the step that decodes it emits a complete event
   that carries the mapped reason and the unit's usage counts. *)
C16_CompleteCarriesUsage ==
    [][(/\ OneUnitStep /\ path \in {"sse", "json"}
        /\ LET v == loaded'[Len(loaded')]
           IN v.t = "dict" /\ UnitReason(v) # <<>> /\ HasKey(v, "usage") /\ Item(v, "usage").t = "dict")
       => (/\ Len(emitted') > Len(emitted)
           /\ LET v == loaded'[Len(loaded')]
                  e == emitted'[Len(emitted')]
              IN /\ IsComplete(e)
                 /\ e.finish_reason = QwenMapFinishReason(StrV(UnitReason(v)))
                 /\ e.usage_metadata = UnitUsage(v))]_vars

(* C17: a non-streaming call yields exactly one event, and its completion
   reason is the mapping of the reason carried inside the response shape:
   output.finish_reason, or the first choice's finish_reason. *)
C17_NonStreamingReason ==
    (path = "nonstream" /\ status = "ended" /\ UnitReason(loaded[1]) # <<>>) =>
        /\ Len(emitted) = 1
        /\ emitted[1].finish_reason = QwenMapFinishReason(StrV(UnitReason(loaded[1])))

-----------------------------------------------------------------------------
(* Properties of the vendor session *)

(* C13: for a single generate_content_async call, on every exit path
   (end of stream, failed status, exception mid-stream, the consumer
   closing the generator) the session opened for the call is closed, and
   closed exactly once; no session is ever closed twice. *)
C13_SessionClosedOnce ==
    /\ \A s \in 1..Len(sessions) : sessions[s].closes <= 1
    /\ (Len(gens) = 1 /\ gens[1].pc = "done") =>
           /\ Len(sessions) = 1 /\ gens[1].using = 1
           /\ sessions[1].closed /\ sessions[1].closes = 1
           /\ session = 0

\* a single call left at a yield by the consumer, its session closed
C13_Witness ==
    /\ Len(gens) = 1 /\ gens[1].pc = "done" /\ gens[1].exit = "closed"
    /\ sessions = <<[closed |-> TRUE, closes |-> 1]>>

\* the call g is between its post and its finally block
InFlight(g) == gens[g].pc \in {"posting", "reading", "yielded"}

(* C14: with two or more concurrent calls on one instance, the session a
   still-running generation posts on and reads from is never closed by
   another generation's finally block. *)
C14_SessionPrivate ==
    \A g \in 1..Len(gens) : InFlight(g) => ~sessions[gens[g].using].closed

-----------------------------------------------------------------------------
(* Properties of agent_stream_generator *)

\* a frame that ends a client stream
IsTerminal(f) == f.event \in {"complete", "error"}

(* C18: every client stream ends with exactly one terminal frame, complete
   or error: no frame, terminal or message, is written after a terminal
   frame, and a finished stream has one. *)
C18_OneTerminalFrame ==
    \A c \in 1..Len(conns) :
        /\ \A k \in 1..Len(conns[c].frames) : IsTerminal(conns[c].frames[k]) => k = Len(conns[c].frames)
        /\ conns[c].pc = "done" => (conns[c].frames # <<>> /\ IsTerminal(conns[c].frames[Len(conns[c].frames)]))

\* the error frame the inner except writes when the loop raises
IsStreamError(f) == f.event = "error" /\ f.text = <<"<stream error>">>

(* C19: when iterating the orchestrator's events raises after k >= 0
   message frames, exactly one error frame is written, as the last frame
   of the stream; its full_response is the concatenation of the texts of
   the k message frames, or the apology when k = 0; nothing follows it. *)
C19_ErrorCarriesPartialText ==
    \A c \in 1..Len(conns) : \A k \in 1..Len(conns[c].frames) :
        IsStreamError(conns[c].frames[k]) =>
            /\ k = Len(conns[c].frames) /\ conns[c].pc = "done"
            /\ \A j \in 1..(k - 1) : conns[c].frames[j].event = "message"
            /\ conns[c].frames[k].full =
                   <<IF k > 1 THEN Flatten([j \in 1..(k - 1) |-> conns[c].frames[j].text]) ELSE APOLOGY>>

\* the loop raised after the two message frames a and b
C19_Witness ==
    \E c \in 1..Len(conns) :
        /\ Len(conns[c].frames) = 3 /\ conns[c].pc = "done"
        /\ conns[c].frames[1].event = "message" /\ conns[c].frames[1].text = <<"a">>
        /\ conns[c].frames[2].event = "message" /\ conns[c].frames[2].text = <<"b">>
        /\ IsStreamError(conns[c].frames[3]) /\ conns[c].frames[3].full = <<<<"a", "b">>>>

-----------------------------------------------------------------------------
(* Properties of _clean_markdown_json *)

(* C20: _clean_markdown_json returns its input unchanged for every text
   that holds no fence, texts with leading or trailing spaces or line
   feeds and texts made only of whitespace included. *)
C20_FenceFreeUnchanged ==
    (clean_out # <<>> /\ Find(clean_in, FENCE) = 0) => clean_out[1] = clean_in

\* a fence line: the fence, alone or tagged json, between optional blanks
IsFenceLine(line) == Strip(line) \in {<<FENCE>>, <<FENCE, JSON_TAG>>}

\* the lines the filter of _clean_markdown_json goes over
FilterLines == SplitLines(Strip(clean_in))

\* the lines of a text that are no fence lines, in their order
NonFenceLines(lines) == SelectSeq(lines, LAMBDA l : ~IsFenceLine(l))

\* a text made of a fence-open line, body lines and a fence-close line
IsFencedBlock(lines) ==
    /\ Len(lines) >= 2
    /\ IsFenceLine(lines[1])
    /\ Strip(lines[Len(lines)]) = <<FENCE>>
    /\ NonFenceLines(lines) = SubSeq(lines, 2, Len(lines) - 1)

(* C21: the line filter of _clean_markdown_json keeps exactly the lines
   that are no fence lines, in their order, so that a text made of a
   fence-open line, body lines and a fence-close line yields exactly its
   body lines; every fence line, a bare fence met inside a fence included,
   leaves the state inside-fence. *)
C21_FenceLinesDropped ==
    clean_out # <<>> =>
        /\ CleanedLines(FilterLines, FALSE) = NonFenceLines(FilterLines)
        /\ \A k \in 1..Len(FilterLines) :
              IsFenceLine(FilterLines[k]) => InCodeBlockAfter(SubSeq(FilterLines, 1, k), FALSE)
        /\ IsFencedBlock(FilterLines)
               => CleanedLines(FilterLines, FALSE) = SubSeq(FilterLines, 2, Len(FilterLines) - 1)

\* a fenced block with one body line has gone through the filter
C21_Witness ==
    /\ clean_in = <<FENCE, LF, "a", LF, FENCE>>
    /\ clean_out # <<>>
    /\ clean_out[1] = <<"a">>

(* C21 as stated: the same, with a bare fence line met inside a fence
   setting the state back to outside-fence. *)
C21_LineFilter ==
    clean_out # <<>> =>
        /\ CleanedLines(FilterLines, FALSE) = NonFenceLines(FilterLines)
        /\ \A k \in 1..Len(FilterLines) :
              (InCodeBlockAfter(SubSeq(FilterLines, 1, k - 1), FALSE) /\ Strip(FilterLines[k]) = <<FENCE>>)
                  => ~InCodeBlockAfter(SubSeq(FilterLines, 1, k), FALSE)
        /\ IsFencedBlock(FilterLines)
               => CleanedLines(FilterLines, FALSE) = SubSeq(FilterLines, 2, Len(FilterLines) - 1)

-----------------------------------------------------------------------------
(* Properties of the message adapters *)

\* the non-empty texts of a turn, in order
TurnTexts(turn) ==
    LET filled == SelectSeq(turn.parts, LAMBDA p : p.text.t = "str" /\ p.text.s # <<>>)
    IN [i \in 1..Len(filled) |-> filled[i].text.s]

\* the system instruction is a non-empty string
HasSystemInstruction(request) ==
    request.config # <<>> /\ request.config[1].t = "str" /\ request.config[1].s # <<>>

\* the messages the adapter is to make of a request
ExpectedMessages(request) ==
    LET speaking == SelectSeq(request.contents, LAMBDA turn : TurnTexts(turn) # <<>>)
    IN (IF HasSystemInstruction(request) THEN <<[role |-> "system", content |-> request.config[1]]>> ELSE <<>>)
       \o [i \in 1..Len(speaking) |->
             [role |-> IF speaking[i].role \in {"user", "USER"} THEN "user" ELSE "assistant",
              content |-> StrV(JoinLines(TurnTexts(speaking[i])))]]

(* C22: both message adapters output a first message of role system iff
   the system instruction is non-empty, then, in conversation order, one
   message for every turn that has a non-empty text part and none for the
   others, of role user iff the turn's role is user or USER and assistant
   otherwise, its content the turn's non-empty texts joined by a line
   feed. *)
C22_MessageAdapter ==
    \A i \in 1..Len(mapLog) :
        /\ mapLog[i].result = ExpectedMessages(mapLog[i].arg)
        /\ HasSystemInstruction(mapLog[i].arg)
              <=> (mapLog[i].result # <<>> /\ mapLog[i].result[1].role = "system")

\* a system instruction, an upper case USER turn of two texts, a silent
\* turn and a model turn with empty parts between its texts
C22_Witness ==
    /\ Len(mapLog) = 1
    /\ mapLog[1].arg = [config |-> <<StrV(<<"s">>)>>,
                         contents |-> <<Turn("USER", <<StrV(<<"a">>), StrV(<<"b">>)>>), Turn("user", <<NoneV, StrV(<<>>)>>)>>]
    /\ mapLog[1].result = << [role |-> "system", content |-> StrV(<<"s">>)],
                             [role |-> "user", content |-> StrV(<<"a", LF, "b">>)] >>

-----------------------------------------------------------------------------
(* Properties of the streaming generation of OpenAILlm *)

\* the chunk's first choice carries a completion reason
ChunkHasReason(chunk) == chunk.choices # <<>> /\ Truthy(chunk.choices[1].finish_reason)

\* the chunk's first choice carries text
ChunkHasText(chunk) == chunk.choices # <<>> /\ Truthy(chunk.choices[1].delta.content)

(* C23: a streaming generation of OpenAILlm yields at most one complete
   event, and nothing after it, whatever the chunks, a chunk whose choice
   has a finish_reason and no content included. *)
C23_OpenAICompleteIsLast ==
    path = "openai" =>
        \A i \in 1..Len(emitted) : IsComplete(emitted[i]) => i = Len(emitted)

(* C24: when a chunk of a streaming generation of OpenAILlm carries a
   completion reason, with or without text, the complete event that ends
   the generation carries the mapping of the last such reason: length
   gives MAX_TOKENS, and STOP does not replace it. *)
C24_OpenAIReasonKept ==
    (path = "openai" /\ status = "ended" /\ \E i \in 1..Len(sent) : ChunkHasReason(sent[i])) =>
        LET last == CHOOSE i \in 1..Len(sent) :
                        ChunkHasReason(sent[i]) /\ \A j \in (i + 1)..Len(sent) : ~ChunkHasReason(sent[j])
        IN /\ IsComplete(emitted[Len(emitted)])
           /\ emitted[Len(emitted)].finish_reason = OpenAIMapFinishReason(sent[last].choices[1].finish_reason)

\* the events yielded for the chunks gone over, the closing one apart
ChunkEvents == IF status = "ended" THEN SubSeq(emitted, 1, Len(emitted) - 1) ELSE emitted

(* C25: in a streaming generation of OpenAILlm a chunk with no choices, or
   whose choice has neither text nor a finish_reason, yields no event:
   the events yielded are as many as the chunks that carry text or a
   reason. *)
C25_OpenAISilentChunk ==
    path = "openai" =>
        Len(ChunkEvents) = Cardinality({i \in 1..Len(sent) : ChunkHasText(sent[i]) \/ ChunkHasReason(sent[i])})

-----------------------------------------------------------------------------
(* Properties of the JSON framing path *)

(* C26: in the JSON path, when every unit decoded so far is a Shape A unit
   whose text holds no fence and extends the text of the unit before it,
   the texts of the emitted text deltas concatenate to the last text, also
   when a delta begins or ends with a space or a line feed. *)
C26_JsonCumulativeDeltas ==
    (/\ path = "json" /\ loaded # <<>>
     /\ \A i \in 1..Len(loaded) : IsShapeA(loaded[i]) /\ Find(UnitText(loaded[i]), FENCE) = 0
     /\ \A i \in 2..Len(loaded) : StartsWith(UnitText(loaded[i]), UnitText(loaded[i - 1])))
    => Flatten(DeltaTexts(emitted)) = UnitText(LastLoaded)

(* C27: in the JSON path, once a unit with a completion reason has been
   parsed and its complete event emitted, the processor reads no more:
   no later chunk of the transport is consumed or parsed. *)
C27_JsonStopsAfterComplete ==
    [][(path = "json" /\ \E i \in 1..Len(emitted) : IsComplete(emitted[i]))
       => (sent' = sent /\ loaded' = loaded)]_vars

-----------------------------------------------------------------------------
(* Properties of the Qwen stream processors on multi-byte characters *)

\* how often the symbol c occurs in s
Occurrences(s, c) == Cardinality({i \in 1..Len(s) : s[i] = c})

\* the JSON processor fed the units of the stream one unit a read
RECURSIVE JsonByUnit(_, _)
JsonByUnit(st, stream) ==
    IF \E i \in 1..(Len(stream) - 1) : stream[i] = "}" /\ stream[i + 1] = "}"
    THEN LET i == CHOOSE i \in 1..(Len(stream) - 1) :
                      /\ stream[i] = "}" /\ stream[i + 1] = "}"
                      /\ \A j \in 1..(i - 1) : ~(stream[j] = "}" /\ stream[j + 1] = "}")
         IN JsonByUnit(JsonChunk(st, SubSeq(stream, 1, i + 1)), DropFirst(stream, i + 1))
    ELSE st

(* C28: in both Qwen streaming paths a character of two UTF-8 bytes that
   is split across two reads is put together again: when the stream has
   been read and every unit of it decoded, the events are those of the
   same stream read with each unit, and so each character, whole inside
   one read. *)
C28_SplitCharacterReassembled ==
    (/\ path \in {"sse", "json"} /\ wire = <<>>
     /\ Occurrences(sent, UTF8_LEAD) > 0
     /\ Len(loaded) = Occurrences(sent, "output"))
    => emitted = (IF path = "sse" THEN SseChunk(StartLocals, sent).emitted
                  ELSE JsonByUnit(StartLocals, sent).emitted)

-----------------------------------------------------------------------------
(* Properties of agent_stream_generator on events without content *)

\* in this step the connection c takes an event whose content is None
TakesContentNone(c) ==
    c <= Len(conns') /\ conns'[c].content_none = conns[c].content_none + 1

(* C29: an orchestrator event whose content is None does not raise in
   agent_stream_generator and writes no error frame: the step that takes
   it writes no frame and the loop goes on to the next event. *)
C29_ContentNoneTolerated ==
    [][\A c \in 1..Len(conns) :
          TakesContentNone(c) => (conns'[c].frames = conns[c].frames /\ conns'[c].pc = "loop")]_vars

(* C30: on a connection with at least one message frame and no error
   frame, the full_response of each complete frame is the concatenation,
   in the order written, of the texts of the message frames before it. *)
C30_FullResponseIsConcatenation ==
    \A c \in 1..Len(conns) : \A k \in 1..Len(conns[c].frames) :
        (/\ conns[c].frames[k].event = "complete"
         /\ \E j \in 1..(k - 1) : conns[c].frames[j].event = "message"
         /\ \A j \in 1..Len(conns[c].frames) : conns[c].frames[j].event # "error")
        => LET before == SelectSeq(SubSeq(conns[c].frames, 1, k - 1), LAMBDA f : f.event = "message")
           IN conns[c].frames[k].full = <<Flatten([j \in 1..Len(before) |-> before[j].text])>>

\* the messages a and b, then the complete frame written after the loop
C30_Witness ==
    \E c \in 1..Len(conns) :
        /\ Len(conns[c].frames) = 3 /\ conns[c].pc = "done"
        /\ conns[c].frames[1].event = "message" /\ conns[c].frames[1].text = <<"a">>
        /\ conns[c].frames[2].event = "message" /\ conns[c].frames[2].text = <<"b">>
        /\ conns[c].frames[3].event = "complete" /\ conns[c].frames[3].full = <<<<"a", "b">>>>

-----------------------------------------------------------------------------
(* Properties of the vendor session under concurrent calls *)

\* every call made has run to its end
AllGenerationsDone == gens # <<>> /\ \A g \in 1..Len(gens) : gens[g].pc = "done"

(* C31: under any interleaving of the concurrent generate_content_async
   calls on one instance, once all the generations have finished every
   session made by _ensure_session is closed: none is left open with the
   instance no longer holding it. *)
C31_NoSessionLeft ==
    AllGenerationsDone => \A s \in 1..Len(sessions) : sessions[s].closed

-----------------------------------------------------------------------------
(* Properties of the frame ids over all connections *)

(* C32: over all the connections of the process, their frame writes
   interleaved in any way, no two frames carry the same id, and the ids
   on any one connection are strictly increasing. *)
C32_IdsUniqueAndIncreasing ==
    /\ \A c, d \in 1..Len(conns) : \A k \in 1..Len(conns[c].frames) : \A j \in 1..Len(conns[d].frames) :
          conns[c].frames[k].id = conns[d].frames[j].id => (c = d /\ k = j)
    /\ \A c \in 1..Len(conns) : \A k, j \in 1..Len(conns[c].frames) :
          k < j => conns[c].frames[k].id < conns[c].frames[j].id

\* two connections whose frames were written in turn: 1 and 3 on the
\* first, 2 and 4 on the second
C32_Witness ==
    /\ Len(conns) = 2
    /\ Len(conns[1].frames) = 2 /\ conns[1].frames[1].id = 1 /\ conns[1].frames[2].id = 3
    /\ Len(conns[2].frames) = 2 /\ conns[2].frames[1].id = 2 /\ conns[2].frames[2].id = 4

-----------------------------------------------------------------------------
(* Properties of the accumulated text *)

\* the incremental fragments the processor has computed, before any
\* sanitizing, for the decoded values, starting from the accumulated text acc
RECURSIVE FragmentsOf(_, _)
FragmentsOf(values, acc) ==
    IF values = <<>> THEN <<>>
    ELSE LET x == ExtractText(Head(values))
             d == IF x.raised THEN [raised |-> TRUE, inc |-> <<>>, acc |-> acc]
                  ELSE Increment(x.current_text, acc)
         IN IF d.raised THEN FragmentsOf(Tail(values), acc)
            ELSE <<d.inc>> \o FragmentsOf(Tail(values), d.acc)

(* C33: in both Qwen streaming paths the accumulated text is at every
   point the concatenation of the incremental fragments computed so far,
   before sanitizing (in the SSE path these are the texts of the deltas
   emitted), and every step leaves it with the accumulated text before the
   step as a prefix: it never shrinks and is never rewritten. *)
C33_AccumulatedTextGrows ==
    [][(path = "sse" \/ path = "json") =>
          (/\ accumulated_text' = Flatten(FragmentsOf(loaded', <<>>))
           /\ (path = "sse" => accumulated_text' = Flatten(DeltaTexts(emitted')))
           /\ StartsWith(accumulated_text', accumulated_text))]_vars

\* the JSON path after the cumulative texts a and a b: the fragments are
\* a and space b, the second delta is the sanitized fragment
C33_Witness ==
    /\ path = "json" /\ Len(loaded) = 2
    /\ UnitText(loaded[1]) = <<"a">> /\ UnitText(loaded[2]) = <<"a", " ", "b">>
    /\ FragmentsOf(loaded, <<>>) = << <<"a">>, <<" ", "b">> >>
    /\ accumulated_text = <<"a", " ", "b">>
    /\ DeltaTexts(emitted) = << <<"a">>, <<"b">> >>

-----------------------------------------------------------------------------
(* Algebraic properties of _clean_markdown_json *)

(* C34: _clean_markdown_json is idempotent: applied to its own result it
   gives that result again, for every text. *)
C34_CleanIdempotent ==
    \A k \in 2..Len(clean_out) : clean_out[k] = clean_out[k - 1]

\* a fenced text with blanks around it, cleaned twice
C34_Witness ==
    /\ clean_in = <<" ", FENCE, LF, "a", " ">>
    /\ Len(clean_out) = 2
    /\ clean_out[1] = <<"a">> /\ clean_out[2] = <<"a">>

=============================================================================
